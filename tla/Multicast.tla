------------------------------- MODULE Multicast -------------------------------
(***************************************************************************)
(* What the two UDP backends share: a server that sends each frame as one  *)
(* datagram to a multicast group, a network that loses, doubles and        *)
(* reorders, and the state and the frame parser of a client.  The clients  *)
(* themselves are AsioClient and PocoClient, UdpStream puts them together. *)
(*                                                                         *)
(* A frame is its number and its length.  A frame that is longer than the  *)
(* buffer it is received in loses its end there, and with it the delimiter *)
(* between it and the next one.                                            *)
(***************************************************************************)
EXTENDS Naturals, Sequences, SequencesExt

CONSTANTS FrameLengths,  \* bytes of a frame, delimiter included, that the
                         \* options of a server can give it
          MaxConnects,   \* bound: calls of connect() that open a socket
          MaxFrames,     \* bound: frames broadcast in a behaviour
          MaxDatagrams   \* bound: datagrams that reach the client

ASSUME StreamAssumption ==
  /\ FrameLengths \subseteq Nat
  /\ MaxConnects \in Nat /\ MaxFrames \in Nat /\ MaxDatagrams \in Nat

VARIABLES
  server, grid,      \* a server: new, running or stopped; its frames' length
  published,         \* how many frames have been broadcast
  wire, datagrams,   \* frames under way, and how many datagrams arrived
  pc,                \* the statement of the client's caller
  io, cur,           \* its receiving thread's statement and frame
  connects, mRunning, mConnected, socketOpen,
  mFrameBuffer,      \* "empty", or "torn": frames without their delimiters
  received,          \* the datagrams that were appended to it
  shown,             \* what was given to mOnDataReceived
  told               \* the last of mOnConnected and mOnDisconnected

netVars    == <<server, grid, published, wire, datagrams>>
flagVars   == <<connects, mRunning, mConnected>>
viewVars   == <<mFrameBuffer, received, shown>>
clientVars == <<pc, io, cur, flagVars, socketOpen, viewVars, told>>

MAX_BUFFER_SIZE == 4096
Frame == (1..MaxFrames) \X FrameLengths

(* A receive that failed, or a string that is no frame.                    *)
None == <<0, 0>>

MulticastTypeOK ==
  /\ server \in {"new", "running", "stopped"} /\ grid \in FrameLengths
  /\ published \in 0..MaxFrames
  /\ wire \subseteq Frame /\ datagrams \in 0..MaxDatagrams
  /\ cur \in Frame \cup {None} /\ connects \in 0..MaxConnects
  /\ mRunning \in BOOLEAN /\ mConnected \in BOOLEAN /\ socketOpen \in BOOLEAN
  /\ mFrameBuffer \in {"empty", "torn"}
  /\ received \in Seq(Frame \cup {None}) /\ shown \in Seq(Frame \cup {None})
  /\ told \in {"nothing", "connected", "lost"}

MulticastInit ==
  /\ server = "new" /\ grid \in FrameLengths
  /\ published = 0 /\ wire = {} /\ datagrams = 0
  /\ pc = "idle" /\ io = "none" /\ cur = None
  /\ connects = 0 /\ mRunning = FALSE /\ mConnected = FALSE
  /\ socketOpen = FALSE /\ mFrameBuffer = "empty" /\ received = <<>>
  /\ shown = <<>> /\ told = "nothing"

-----------------------------------------------------------------------------
(* The server.  Its threads have nothing to run: they wait in io_context   *)
(* and leave when stop() stops it.                                         *)

(* start(), which fails before any thread runs if the address is wrong.    *)
(* Once a server has stopped, another may take over the group, with a grid *)
(* of its own.                                                             *)
StartServer ==
  /\ server # "running"
  /\ server' \in {"running", "stopped"}
  /\ grid' \in FrameLengths
  /\ UNCHANGED <<published, wire>>

(* broadcastData(): one synchronous send.                                  *)
BroadcastData ==
  /\ server = "running" /\ published < MaxFrames
  /\ published' = published + 1
  /\ wire' = wire \cup {<<published + 1, grid>>}
  /\ UNCHANGED <<server, grid>>

StopServer ==
  /\ server = "running"
  /\ server' = "stopped"
  /\ UNCHANGED <<grid, published, wire>>

(* The network drops a datagram.                                           *)
Lose(f) ==
  /\ f \in wire
  /\ wire' = wire \ {f}
  /\ UNCHANGED <<server, grid, published>>

(* A datagram reaches the socket; the network may keep another copy of it. *)
TakeDatagram(f, again) ==
  /\ socketOpen /\ f \in wire /\ datagrams < MaxDatagrams
  /\ datagrams' = datagrams + 1
  /\ wire' = IF again THEN wire ELSE wire \ {f}
  /\ UNCHANGED <<server, grid, published>>

OutsideStep ==
  /\ \/ StartServer \/ BroadcastData \/ StopServer
     \/ \E f \in Frame : Lose(f)
  /\ UNCHANGED <<datagrams, clientVars>>

-----------------------------------------------------------------------------
(* The client's two threads go from statement to statement.                *)

Call(from, to)  == pc = from /\ pc' = to /\ UNCHANGED <<io, netVars>>
Serve(from, to) == io = from /\ io' = to /\ UNCHANGED <<pc, netVars>>

(* connect() of a client that is not connected gets to its socket.         *)
Connecting ==
  /\ pc = "idle" /\ ~mConnected /\ connects < MaxConnects
  /\ connects' = connects + 1
  /\ socketOpen' = TRUE
  /\ UNCHANGED <<netVars, viewVars, told>>

(* The datagram reaches mReceiveBuffer with its end.                       *)
Fits(f) == f[2] <= MAX_BUFFER_SIZE

(* What is given out stays in mFrameBuffer.                                *)
ParseAppended ==
  /\ received' = Append(received, cur)
  /\ mFrameBuffer' = "torn"
  /\ shown' = IF Fits(cur)
              THEN Append(shown, IF mFrameBuffer = "empty" THEN cur ELSE None)
              ELSE shown

(* The bytes are appended to mFrameBuffer, and what ends with a delimiter  *)
(* is cut out and given to mOnDataReceived.                                *)
Parse ==
  /\ received' = Append(received, cur)
  /\ mFrameBuffer' = IF Fits(cur) THEN "empty" ELSE "torn"
  /\ shown' = IF Fits(cur)
              THEN Append(shown, IF mFrameBuffer = "empty" THEN cur ELSE None)
              ELSE shown

(* The destructor: disconnect() has nothing to do any more, and the thread *)
(* is the first member to go that can wait.                                *)
Destroy ==
  /\ Call("idle", "destroy") /\ ~mRunning
  /\ UNCHANGED <<cur, flagVars, socketOpen, viewVars, told>>

Destroyed ==
  /\ Call("destroy", "gone") /\ io = "none"
  /\ UNCHANGED <<cur, flagVars, socketOpen, viewVars, told>>
=============================================================================
