----------------------- MODULE PluginSession_proofs -----------------------
(***************************************************************************)
(* Proofs about the plugin's threads, for every MaxQueue and MaxSessions:   *)
(* the bounds cut no behaviour the safety properties need.                  *)
(***************************************************************************)
EXTENDS PluginSession, TLAPS

\* A thread runs only while its handle is kept, and for the newest connection.
ThreadHasHandle == tpc # "none" => handle /\ serving = opened

\* What connect_to_server has established at each of its stages.
ConnectStages ==
  /\ cpc \in {"open", "handshake", "spawn"} => ~handle
  /\ cpc \in {"reap", "open", "handshake"} => ~connected
  /\ cpc \in {"handshake", "spawn"} => socket
  /\ cpc = "spawn" => connected

\* A connected plugin outside a console command: its thread is alive, and until
\* it starts a teardown the flag is down and the socket open.
LiveThread ==
  connected /\ cpc = "idle" =>
    /\ tpc \in {"loop", "drain", "draining", "auto", "closing", "resetting"}
    /\ tpc \notin {"closing", "resetting"} => ~stop /\ socket

CursorsAfterReset == tpc = "cursors" => ~connected

IInv == TypeOK /\ ThreadHasHandle /\ ConnectStages /\ LiveThread /\ CursorsAfterReset

----------------------------------------------------------------------------
\* The Boolean part of TypeOK, a step of its own where the solver needs one.
Flags ==
  /\ paused \in BOOLEAN /\ stop \in BOOLEAN /\ connected \in BOOLEAN
  /\ socket \in BOOLEAN /\ handle \in BOOLEAN /\ resync \in BOOLEAN
  /\ silent \in BOOLEAN /\ auto \in BOOLEAN /\ greeting \in BOOLEAN
  /\ aborted \in BOOLEAN

\* The plugin starts without thread, socket or session: the invariant holds.
LEMMA InitIInv == Init => IInv
<1> SUFFICES ASSUME Init PROVE IInv
    OBVIOUS
<1> USE DEF Init
<1>1. queue \in 0..MaxQueue /\ opened \in 0..MaxSessions /\ serving \in 0..MaxSessions
  BY BoundsAssumption, SMT DEF BoundsAssumption
<1>2. TypeOK
  BY <1>1, Zenon DEF TypeOK
<1>3. ThreadHasHandle /\ CursorsAfterReset
  BY SMT DEF ThreadHasHandle, CursorsAfterReset
<1>4. ConnectStages
  BY SMT DEF ConnectStages
<1>5. LiveThread
  BY SMT DEF LiveThread
<1> QED BY <1>2, <1>3, <1>4, <1>5 DEF IInv

\* Every step of a thread, of the console or of the game leaves each variable
\* within its type: queues and counters within their bounds, every program
\* counter at a point the code has.
LEMMA TypeStep == TypeOK /\ [Next]_vars => TypeOK'
<1> SUFFICES ASSUME TypeOK, [Next]_vars PROVE TypeOK'
    OBVIOUS
<1> USE BoundsAssumption DEF BoundsAssumption, TypeOK, netVars, workVars
<1>1. CASE SocketThread
  <2>1. CASE ReceiveWork BY <2>1 DEF ReceiveWork, MayReceive
  <2>2. CASE ReceiveResync
    <3>1. Flags' BY <2>2 DEF Flags, ReceiveResync, MayReceive
    <3> QED BY <2>2, <3>1 DEF Flags, ReceiveResync, MayReceive
  <2>3. CASE ReceiveHeartbeat
    <3>1. Flags' BY <2>3 DEF Flags, ReceiveHeartbeat, MayReceive
    <3> QED BY <2>3, <3>1 DEF Flags, ReceiveHeartbeat, MayReceive
  <2>4. CASE BeginTeardown BY <2>4 DEF BeginTeardown, MayReceive
  <2>5. CASE LeaveLoop BY <2>5 DEF LeaveLoop
  <2>6. CASE DrainLock \/ DrainAbandon BY <2>6 DEF DrainLock, DrainAbandon
  <2>7. CASE DrainStep
    <3>1. CASE DrainItem
      <4>1. Flags' BY <2>7, <3>1 DEF Flags, DrainStep, DrainItem
      <4>2. queue' \in 0..MaxQueue BY <3>1 DEF DrainItem
      <4> QED BY <2>7, <3>1, <4>1, <4>2 DEF Flags, DrainStep, DrainItem
    <3>2. CASE DrainRest
      <4>1. Flags' BY <2>7, <3>2 DEF Flags, DrainStep, DrainRest
      <4> QED BY <2>7, <3>2, <4>1 DEF Flags, DrainStep, DrainRest
    <3>3. CASE DrainThrows
      <4>1. Flags' BY <2>7, <3>3 DEF Flags, DrainStep, DrainThrows
      <4>2. queue' \in 0..MaxQueue BY <3>3 DEF DrainThrows
      <4> QED BY <2>7, <3>3, <4>1, <4>2 DEF Flags, DrainStep, DrainThrows
    <3> QED BY <2>7, <3>1, <3>2, <3>3 DEF DrainStep
  <2>8. CASE AutoUpdateStep BY <2>8 DEF AutoUpdateStep
  <2>9. CASE CloseSocket
    <3>1. Flags' BY <2>9 DEF Flags, CloseSocket
    <3> QED BY <2>9, <3>1 DEF Flags, CloseSocket
  <2>10. CASE ResetConnected
    <3>1. Flags' BY <2>10 DEF Flags, ResetConnected
    <3> QED BY <2>10, <3>1 DEF Flags, ResetConnected
  <2>11. CASE ResetCursors BY <2>11 DEF ResetCursors
  <2> QED BY <1>1, <2>1, <2>2, <2>3, <2>4, <2>5, <2>6, <2>7, <2>8, <2>9, <2>10, <2>11
          DEF SocketThread, ReceiveDisconnect, HeartbeatTimeout
<1>2. CASE ConsoleThread
  <2> USE DEF Console
  <2>1. CASE BeginDisconnect BY <2>1 DEF BeginDisconnect
  <2>2. CASE JoinThread \/ ReapThread
    <3>1. Flags' BY <2>2 DEF Flags, JoinThread, ReapThread
    <3> QED BY <2>2, <3>1 DEF Flags, JoinThread, ReapThread
  <2>3. CASE CloseAndReset
    <3>1. Flags' BY <2>3 DEF Flags, CloseAndReset
    <3> QED BY <2>3, <3>1 DEF Flags, CloseAndReset
  <2>4. CASE BeginConnect BY <2>4 DEF BeginConnect
  <2>5. CASE OpenSocket
    <3>1. Flags' BY <2>5 DEF Flags, OpenSocket
    <3> QED BY <2>5, <3>1 DEF Flags, OpenSocket
  <2>6. CASE OpenFails
    <3>1. Flags' BY <2>6 DEF Flags, OpenFails
    <3> QED BY <2>6, <3>1 DEF Flags, OpenFails
  <2>7. CASE HandshakeOk
    <3>1. Flags' BY <2>7 DEF Flags, HandshakeOk
    <3> QED BY <2>7, <3>1 DEF Flags, HandshakeOk
  <2>10. CASE HandshakeFails
    <3>1. Flags' BY <2>10 DEF Flags, HandshakeFails
    <3> QED BY <2>10, <3>1 DEF Flags, HandshakeFails
  <2>8. CASE SpawnThread BY <2>8 DEF SpawnThread
  <2>9. CASE SwitchAuto BY <2>9 DEF SwitchAuto
  <2> QED BY <1>2, <2>1, <2>2, <2>3, <2>4, <2>5, <2>6, <2>7, <2>8, <2>9, <2>10
          DEF ConsoleThread
<1>3. CASE SimThread
  <2>1. CASE BeginUpdate BY <2>1 DEF BeginUpdate
  <2>2. CASE UpdateStep
    <3>1. CASE DrainItem
      <4>1. Flags' BY <2>2, <3>1 DEF Flags, UpdateStep, DrainItem
      <4>2. queue' \in 0..MaxQueue BY <3>1 DEF DrainItem
      <4> QED BY <2>2, <3>1, <4>1, <4>2 DEF Flags, UpdateStep, DrainItem
    <3>2. CASE DrainRest
      <4>1. Flags' BY <2>2, <3>2 DEF Flags, UpdateStep, DrainRest
      <4> QED BY <2>2, <3>2, <4>1 DEF Flags, UpdateStep, DrainRest
    <3>3. CASE DrainThrows
      <4>1. Flags' BY <2>2, <3>3 DEF Flags, UpdateStep, DrainThrows
      <4>2. queue' \in 0..MaxQueue BY <3>3 DEF DrainThrows
      <4> QED BY <2>2, <3>3, <4>1, <4>2 DEF Flags, UpdateStep, DrainThrows
    <3> QED BY <2>2, <3>1, <3>2, <3>3 DEF UpdateStep
  <2> QED BY <1>3, <2>1, <2>2 DEF SimThread
<1>4. CASE TogglePause
  BY <1>4 DEF TogglePause
<1>5. CASE PeerSilent
  BY <1>5 DEF PeerSilent
<1>6. CASE UNCHANGED vars
  BY <1>6 DEF vars
<1> QED BY <1>1, <1>2, <1>3, <1>4, <1>5, <1>6 DEF Next

\* The stages of a connection survive every step: the socket thread takes the
\* socket and the connected flag away only in a teardown of its own session,
\* and the console opens a connection only when no thread is left.
LEMMA StageStep ==
  IInv /\ [Next]_vars => (ThreadHasHandle /\ ConnectStages /\ LiveThread /\ CursorsAfterReset)'
<1> SUFFICES ASSUME IInv, [Next]_vars
             PROVE (ThreadHasHandle /\ ConnectStages /\ LiveThread /\ CursorsAfterReset)'
    OBVIOUS
<1> USE BoundsAssumption DEF BoundsAssumption, IInv, TypeOK, ThreadHasHandle, ConnectStages, LiveThread, CursorsAfterReset,
            netVars, workVars
<1>1. CASE SocketThread
  <2>1. CASE ReceiveWork \/ ReceiveResync \/ ReceiveHeartbeat
        BY <2>1 DEF ReceiveWork, ReceiveResync, ReceiveHeartbeat, MayReceive
  <2>2. CASE BeginTeardown BY <2>2 DEF BeginTeardown, MayReceive
  <2>3. CASE LeaveLoop BY <2>3 DEF LeaveLoop, MayReceive
  <2>4. CASE DrainLock \/ DrainAbandon BY <2>4 DEF DrainLock, DrainAbandon
  <2>5. CASE DrainStep \/ AutoUpdateStep
        BY <2>5 DEF DrainStep, DrainItem, DrainRest, DrainThrows, AutoUpdateStep
  <2>6. CASE CloseSocket BY <2>6 DEF CloseSocket
  <2>7. CASE ResetConnected BY <2>7 DEF ResetConnected
  <2>8. CASE ResetCursors BY <2>8 DEF ResetCursors
  <2> QED BY <1>1, <2>1, <2>2, <2>3, <2>4, <2>5, <2>6, <2>7, <2>8
          DEF SocketThread, ReceiveDisconnect, HeartbeatTimeout
<1>2. CASE ConsoleThread
  <2> USE DEF Console
  <2>1. CASE BeginDisconnect BY <2>1 DEF BeginDisconnect
  <2>2. CASE JoinThread \/ ReapThread BY <2>2 DEF JoinThread, ReapThread, Joined
  <2>3. CASE CloseAndReset BY <2>3 DEF CloseAndReset
  <2>4. CASE BeginConnect BY <2>4 DEF BeginConnect
  <2>5. CASE OpenSocket \/ OpenFails BY <2>5 DEF OpenSocket, OpenFails
  <2>6. CASE HandshakeOk \/ HandshakeFails BY <2>6 DEF HandshakeOk, HandshakeFails
  <2>7. CASE SpawnThread BY <2>7 DEF SpawnThread
  <2>8. CASE SwitchAuto BY <2>8 DEF SwitchAuto
  <2> QED BY <1>2, <2>1, <2>2, <2>3, <2>4, <2>5, <2>6, <2>7, <2>8 DEF ConsoleThread
<1>3. CASE SimThread
  BY <1>3 DEF SimThread, BeginUpdate, UpdateStep, DrainItem, DrainRest, DrainThrows
<1>4. CASE TogglePause \/ PeerSilent
  BY <1>4 DEF TogglePause, PeerSilent
<1>5. CASE UNCHANGED vars
  BY <1>5 DEF vars
<1> QED BY <1>1, <1>2, <1>3, <1>4, <1>5 DEF Next

\* The inductive invariant holds in every reachable state.
THEOREM Invariance == Spec => []IInv
<1>1. IInv /\ [Next]_vars => IInv'
  BY TypeStep, StageStep DEF IInv
<1> QED BY InitIInv, <1>1, PTL DEF Spec

\* Every variable of the plugin's threads keeps its type.
THEOREM TypeCorrect == Spec => []TypeOK
BY Invariance, PTL DEF IInv

\* No new connection is opened while the socket thread still tears the old one
\* down, so close_socket_and_reset never closes a socket that is not its own.
THEOREM TeardownIsOwn == Spec => []TeardownOfOwnSession
<1>1. IInv => TeardownOfOwnSession
  BY DEF IInv, ThreadHasHandle, TeardownOfOwnSession
<1> QED BY Invariance, <1>1, PTL

\* A plugin that says it is connected has a thread serving that connection.
THEOREM ConnectedServed == Spec => []ConnectedIsServed
<1>1. IInv => ConnectedIsServed
  BY DEF IInv, ThreadHasHandle, LiveThread, ConnectedIsServed
<1> QED BY Invariance, <1>1, PTL

\* connect_to_server never assigns g_message_thread while it is joinable.
THEOREM NoJoinableReplaced == Spec => NoThreadReplaced
<1>1. IInv /\ [Next]_vars => [SpawnThread => ~handle]_vars
  BY DEF IInv, ConnectStages, SpawnThread, Console
<1> QED BY Invariance, <1>1, PTL DEF Spec, NoThreadReplaced
=============================================================================
