----------------------------- MODULE ClientSession ------------------------------
(***************************************************************************)
(* The server's side of the connection (internal/dfhack/client.go and      *)
(* internal/protocol/connection.go): the accept loop with its handshake,   *)
(* a message loop and a heartbeat sender per connection, and Stop.  The    *)
(* plugin has one connection at a time.  Queries are in QueryChannel.      *)
(***************************************************************************)
EXTENDS Integers, Sequences, FiniteSets

CONSTANTS
    MaxConns,   \* connections the plugin opens
    MaxBeats,   \* heartbeats and echoes under way on a connection
    MaxFaults   \* bad handshakes, unreadable frames and vanished peers

ASSUME BoundsAssumption == MaxConns \in Nat /\ MaxBeats \in Nat \ {0} /\ MaxFaults \in Nat

VARIABLES
    \* server, Client
    conn,       \* c.conn, 0 when nil
    listening,  \* c.listener is not nil
    apc, acc,   \* accept loop: where it is and the connection it handles
    lpc,        \* by connection: its message loop
    hpc,        \* by connection: its heartbeat sender
    age,        \* ten-second units since lastHeartbeatAck, up to two
    ticked,     \* heartbeat senders whose ticker has fired in this unit
    spc,        \* Stop
    \* server, Connection
    state, sock, \* by connection: its state, and whether the socket is open here
    \* wire and plugin
    backlog,    \* connections not accepted yet
    peer,       \* by connection: "none", "open", "closed", or "gone" without a word
    inbox,      \* by connection: frames the server has not read
    beats,      \* by connection: heartbeats the plugin has not read
    faults

clientVars == <<conn, listening, apc, acc, lpc, hpc, age, ticked, spc>>
connVars   == <<state, sock>>
peerVars   == <<backlog, peer, inbox, beats, faults>>
vars       == <<clientVars, connVars, peerVars>>

Conns    == 1..MaxConns
Stopping == spc # "no"

Init ==
    /\ conn = 0 /\ listening = TRUE /\ apc = "accept" /\ acc = 0
    /\ lpc = [c \in Conns |-> "none"] /\ hpc = [c \in Conns |-> "none"]
    /\ age = 0 /\ ticked = {} /\ spc = "no"
    /\ state = [c \in Conns |-> "none"] /\ sock = [c \in Conns |-> FALSE]
    /\ backlog = <<>> /\ peer = [c \in Conns |-> "none"]
    /\ inbox = [c \in Conns |-> <<>>] /\ beats = [c \in Conns |-> 0] /\ faults = 0

-------------------------------------------------------------------------------
(***************************************************************************)
(* Connection.                                                             *)
(***************************************************************************)

\* Send: refused without a connection, else written; what the peer no longer
\* reads is lost, and the write may be the one that reports it
Written(c)    == state[c] = "Connected" /\ sock[c]
WriteFails(c) ==
    /\ state[c] # "Connected" \/ ~sock[c] \/ peer[c] # "open"
    /\ state' = IF state[c] = "Connected" THEN [state EXCEPT ![c] = "Error"] ELSE state

\* Receive: a frame, the end of the stream, or a socket closed meanwhile
Frames(c) == sock[c] /\ inbox[c] # <<>>
Ended(c)  == ~sock[c] \/ (inbox[c] = <<>> /\ peer[c] = "closed")

\* Close: a DISCONNECT that may get lost, then the socket
Closed(c) == sock' = [sock EXCEPT ![c] = FALSE] /\ state' = [state EXCEPT ![c] = "Disconnected"]

-------------------------------------------------------------------------------
(***************************************************************************)
(* acceptLoop, handleConnection, performHandshake.                         *)
(***************************************************************************)
Accept ==
    /\ apc = "accept" /\ listening /\ backlog # <<>>
    /\ acc' = Head(backlog) /\ backlog' = Tail(backlog) /\ apc' = "publish"
    /\ sock' = [sock EXCEPT ![acc'] = TRUE]
    /\ UNCHANGED <<conn, listening, lpc, hpc, age, ticked, spc, state, peer, inbox, beats, faults>>

\* Seeded fault: connections that wait are served before stopCh is looked at.
AcceptLoopDrains ==
    /\ apc = "accept" /\ Stopping /\ backlog = <<>>
    /\ apc' = "done"
    /\ UNCHANGED <<conn, listening, acc, lpc, hpc, age, ticked, spc, connVars, peerVars>>
\* noticed at the top of the loop, within the accept deadline of one second
AcceptLoopEnds ==
    /\ apc = "accept" /\ Stopping
    /\ apc' = "done"
    /\ UNCHANGED <<conn, listening, acc, lpc, hpc, age, ticked, spc, connVars, peerVars>>

Publish ==
    /\ apc = "publish"
    /\ conn' = acc /\ state' = [state EXCEPT ![acc] = "Connected"] /\ apc' = "greet"
    /\ UNCHANGED <<listening, acc, lpc, hpc, age, ticked, spc, sock, peerVars>>

Greet ==
    /\ apc = "greet"
    /\ \/ Written(acc) /\ apc' = "await" /\ UNCHANGED connVars
       \/ WriteFails(acc) /\ apc' = "accept" /\ sock' = [sock EXCEPT ![acc] = FALSE]
    /\ UNCHANGED <<conn, listening, acc, lpc, hpc, age, ticked, spc, peerVars>>

\* without a deadline; a failure closes the socket and leaves state and c.conn
AwaitHandshake ==
    /\ apc = "await" /\ (Frames(acc) \/ Ended(acc))
    /\ LET good == Frames(acc) /\ Head(inbox[acc]) = "hello"
       IN /\ apc'   = IF good THEN "serve" ELSE "accept"
          /\ sock'  = IF good THEN sock ELSE [sock EXCEPT ![acc] = FALSE]
          /\ state' = IF ~Frames(acc) /\ state[acc] = "Connected"
                      THEN [state EXCEPT ![acc] = "Error"] ELSE state
          /\ inbox' = [inbox EXCEPT ![acc] = IF good THEN Tail(@) ELSE <<>>]
    /\ UNCHANGED <<conn, listening, acc, lpc, hpc, age, ticked, spc, backlog, peer, beats, faults>>

\* the check of stopCh before Receive, which also looks at the state
NextRound(c) == IF Stopping \/ state'[c] # "Connected" THEN "done" ELSE "receive"

\* the resync request, whose failure is only logged; heartbeats; the loop
Serve ==
    /\ apc = "serve"
    /\ (Written(acc) /\ UNCHANGED state) \/ WriteFails(acc)
    /\ age' = 0 /\ hpc' = [hpc EXCEPT ![acc] = "waiting"]
    /\ lpc' = [lpc EXCEPT ![acc] = NextRound(acc)]
    /\ apc' = "accept"
    /\ UNCHANGED <<conn, listening, acc, ticked, spc, sock, peerVars>>

-------------------------------------------------------------------------------
(***************************************************************************)
(* messageLoop.  A message is handled and the loop goes round in one step. *)
(***************************************************************************)
\* handleHeartbeat: one clock for all connections
ReceiveEcho(c) ==
    /\ lpc[c] = "receive" /\ Frames(c) /\ Head(inbox[c]) = "echo"
    /\ inbox' = [inbox EXCEPT ![c] = Tail(@)]
    /\ UNCHANGED <<conn, listening, apc, acc, hpc, ticked, spc, connVars, backlog, peer, beats, faults>>
    /\ age' = 0 /\ lpc' = [lpc EXCEPT ![c] = NextRound(c)]

\* DISCONNECT, or a frame that cannot be decoded: the loop ends, the state stays
ReceiveLast(c) ==
    /\ lpc[c] = "receive" /\ Frames(c) /\ Head(inbox[c]) \in {"bye", "junk"}
    /\ inbox' = [inbox EXCEPT ![c] = <<>>] /\ lpc' = [lpc EXCEPT ![c] = "done"]
    /\ UNCHANGED <<conn, listening, apc, acc, hpc, age, ticked, spc, connVars, backlog, peer, beats, faults>>

\* a closed socket fails the read in progress, whose error overwrites the state
ReceiveFails(c) ==
    /\ lpc[c] = "receive" /\ Ended(c)
    /\ state' = [state EXCEPT ![c] = "Error"] /\ lpc' = [lpc EXCEPT ![c] = "done"]
    /\ inbox' = [inbox EXCEPT ![c] = <<>>]
    /\ UNCHANGED <<conn, listening, apc, acc, hpc, age, ticked, spc, sock, backlog, peer, beats, faults>>

-------------------------------------------------------------------------------
(***************************************************************************)
(* startHeartbeat: a ticker of ten seconds.                                *)
(***************************************************************************)
Stale(c) == conn # c \/ state[c] \in {"Error", "Disconnected"}

TimePasses ==
    /\ \E c \in Conns : hpc[c] = "waiting"     \* else nobody looks at the clock
    /\ \A c \in Conns : hpc[c] # "sending" /\ (hpc[c] = "waiting" => c \in ticked)
    /\ age' = (IF age < 2 THEN age + 1 ELSE 2) /\ ticked' = {}
    /\ UNCHANGED <<conn, listening, apc, acc, lpc, hpc, spc, connVars, peerVars>>

Tick(c) ==
    /\ hpc[c] = "waiting" /\ c \notin ticked
    /\ ticked' = ticked \cup {c}
    /\ hpc' = [hpc EXCEPT ![c] = IF Stale(c) THEN "done" ELSE "sending"]
    /\ UNCHANGED <<conn, listening, apc, acc, lpc, age, spc, connVars, peerVars>>

HeartbeatStops(c) ==
    /\ hpc[c] = "waiting" /\ Stopping
    /\ hpc' = [hpc EXCEPT ![c] = "done"]
    /\ UNCHANGED <<conn, listening, apc, acc, lpc, age, ticked, spc, connVars, peerVars>>

Room(c) == lpc[c] = "done" \/ beats[c] + Len(inbox[c]) < MaxBeats

\* Seeded fault: a beat that went out counts as a sign of life.
BeatTrusting(c) ==
    /\ hpc[c] = "sending" /\ Room(c)
    /\ \/ /\ Written(c) /\ age' = 0
          /\ beats' = IF peer[c] = "open" /\ lpc[c] # "done" THEN [beats EXCEPT ![c] = @ + 1] ELSE beats
          /\ hpc' = [hpc EXCEPT ![c] = "waiting"] /\ UNCHANGED connVars
       \/ /\ WriteFails(c) /\ hpc' = [hpc EXCEPT ![c] = "done"] /\ UNCHANGED <<sock, beats, age>>
    /\ UNCHANGED <<conn, listening, apc, acc, lpc, ticked, spc, backlog, peer, inbox, faults>>
\* a beat whose echo nobody reads is not counted;
\* a failed write leaves an unusable connection, so the sender ends
Beat(c) ==
    /\ hpc[c] = "sending" /\ Room(c)
    /\ \/ /\ Written(c)
          /\ beats' = IF peer[c] = "open" /\ lpc[c] # "done" THEN [beats EXCEPT ![c] = @ + 1] ELSE beats
          /\ IF age = 2 THEN Closed(c) ELSE UNCHANGED connVars
          /\ hpc' = [hpc EXCEPT ![c] = IF age = 2 THEN "done" ELSE "waiting"]
       \/ /\ WriteFails(c)
          /\ hpc' = [hpc EXCEPT ![c] = "done"] /\ UNCHANGED <<sock, beats>>
    /\ UNCHANGED <<conn, listening, apc, acc, lpc, age, ticked, spc, backlog, peer, inbox, faults>>

-------------------------------------------------------------------------------
(***************************************************************************)
(* Stop.                                                                   *)
(***************************************************************************)
BeginStop ==
    /\ spc = "no" /\ spc' = "signalled"
    /\ UNCHANGED <<conn, listening, apc, acc, lpc, hpc, age, ticked, connVars, peerVars>>

CloseCurrent ==
    /\ spc = "signalled" /\ spc' = "waiting"
    /\ listening' = FALSE /\ conn' = 0
    /\ IF conn # 0 THEN Closed(conn) ELSE UNCHANGED connVars
    /\ UNCHANGED <<apc, acc, lpc, hpc, age, ticked, peerVars>>

StopReturns ==
    /\ spc = "waiting" /\ apc = "done"
    /\ \A c \in Conns : lpc[c] \in {"none", "done"} /\ hpc[c] \in {"none", "done"}
    /\ spc' = "returned"
    /\ UNCHANGED <<conn, listening, apc, acc, lpc, hpc, age, ticked, connVars, peerVars>>

-------------------------------------------------------------------------------
(***************************************************************************)
(* The plugin, as far as the server sees it.                               *)
(***************************************************************************)
\* frames nobody is going to read are not kept
Deliver(c, fs) == inbox' = IF lpc[c] = "done" THEN inbox ELSE [inbox EXCEPT ![c] = @ \o fs]

Dial(c, hello) ==
    /\ listening /\ \A d \in Conns : peer[d] # "open" /\ (d < c <=> peer[d] # "none")
    /\ faults' = (IF hello = "hello" THEN faults ELSE faults + 1) /\ faults' <= MaxFaults
    /\ backlog' = Append(backlog, c)
    /\ peer' = [peer EXCEPT ![c] = "open"] /\ Deliver(c, <<hello>>)
    /\ UNCHANGED <<clientVars, connVars, beats>>

PeerEchoes(c) ==
    /\ peer[c] = "open" /\ beats[c] > 0
    /\ beats' = [beats EXCEPT ![c] = @ - 1] /\ Deliver(c, <<"echo">>)
    /\ UNCHANGED <<clientVars, connVars, backlog, peer, faults>>

\* teardown, with or without a DISCONNECT that gets through
PeerCloses(c) ==
    /\ peer[c] = "open"
    /\ peer' = [peer EXCEPT ![c] = "closed"] /\ beats' = [beats EXCEPT ![c] = 0]
    /\ \E bye \in {<<>>, <<"bye">>} : Deliver(c, bye)
    /\ UNCHANGED <<clientVars, connVars, backlog, faults>>

\* its heartbeat timeout: no sender beats for it any more
PeerGivesUp(c) ==
    /\ ~sock[c] \/ hpc[c] = "done" \/ Stopping
    /\ c \notin {backlog[i] : i \in DOMAIN backlog} /\ PeerCloses(c)

PeerVanishes(c) ==
    /\ peer[c] = "open" /\ faults < MaxFaults /\ faults' = faults + 1
    /\ peer' = [peer EXCEPT ![c] = "gone"] /\ beats' = [beats EXCEPT ![c] = 0]
    /\ UNCHANGED <<clientVars, connVars, backlog, inbox>>

PeerSendsJunk(c) ==
    /\ peer[c] = "open" /\ faults < MaxFaults /\ faults' = faults + 1
    /\ Deliver(c, <<"junk">>)
    /\ UNCHANGED <<clientVars, connVars, backlog, peer, beats>>

-------------------------------------------------------------------------------
AcceptLoop == Accept \/ AcceptLoopEnds \/ Publish \/ Greet \/ AwaitHandshake \/ Serve
MessageLoop(c) == ReceiveEcho(c) \/ ReceiveLast(c) \/ ReceiveFails(c)
Heartbeat(c) == Tick(c) \/ HeartbeatStops(c) \/ Beat(c)
Peer(c) == PeerEchoes(c) \/ PeerCloses(c) \/ PeerVanishes(c) \/ PeerSendsJunk(c)

Next ==
    \/ AcceptLoop
    \/ \E c \in Conns : MessageLoop(c) \/ Heartbeat(c) \/ Peer(c)
    \/ \E c \in Conns, hello \in {"hello", "badhello"} : Dial(c, hello)
    \/ TimePasses
    \/ BeginStop \/ CloseCurrent \/ StopReturns

\* goroutines that can go on do, and tickers fire; the plugin reads what it
\* gets and gives a connection up on which no heartbeat comes
Fairness ==
    /\ WF_vars(AcceptLoop) /\ WF_vars(TimePasses)
    /\ \A c \in Conns : /\ WF_vars(MessageLoop(c)) /\ WF_vars(Heartbeat(c))
                        /\ WF_vars(PeerEchoes(c)) /\ WF_vars(PeerGivesUp(c))
    /\ WF_vars(CloseCurrent) /\ WF_vars(StopReturns)

Spec == Init /\ [][Next]_vars /\ Fairness

-------------------------------------------------------------------------------
(* Types; and a connection is served by both goroutines or by none, and    *)
(* only with its socket open or closed through Close.                      *)
TypeOK ==
    /\ conn \in 0..MaxConns /\ listening \in BOOLEAN /\ acc \in 0..MaxConns
    /\ apc \in {"accept", "publish", "greet", "await", "serve", "done"}
    /\ lpc \in [Conns -> {"none", "receive", "done"}]
    /\ hpc \in [Conns -> {"none", "waiting", "sending", "done"}]
    /\ age \in 0..2 /\ ticked \subseteq Conns /\ spc \in {"no", "signalled", "waiting", "returned"}
    /\ state \in [Conns -> {"none", "Connected", "Error", "Disconnected"}] /\ sock \in [Conns -> BOOLEAN]
    /\ peer \in [Conns -> {"none", "open", "closed", "gone"}]
    /\ beats \in [Conns -> 0..MaxBeats] /\ faults \in 0..MaxFaults
    /\ \A c \in Conns : /\ lpc[c] = "none" <=> hpc[c] = "none"
                        /\ lpc[c] # "none" => sock[c] \/ state[c] # "Connected"

(* A connection whose handshake went well does not stay Connected, in the  *)
(* eyes of IsConnected, once its peer has closed it, gone silent or sent   *)
(* something unreadable, while the client runs; the one heartbeat clock    *)
(* all connections share does not hide it.                                 *)
SilenceNoticed ==
    \A c \in Conns :
        hpc[c] # "none" /\ (peer[c] \in {"closed", "gone"} \/ lpc[c] = "done")
            ~> conn # c \/ state[c] # "Connected" \/ Stopping

(* Stop returns, unless it waits for a reader on a connection it did not   *)
(* close, whose peer went silent before it was replaced or accepted.       *)
Straggler == \E c \in Conns : sock[c] /\ peer[c] = "gone"
StopReturnsElsewhere == spc = "waiting" ~> spc = "returned" \/ Straggler
===============================================================================
