---------------------------- MODULE UdpStreamProofs ----------------------------
(***************************************************************************)
(* Proofs about the two UDP clients, for any number of connections, frames *)
(* and datagrams: what a receive writes is not read, what was received is  *)
(* shown, and no callback comes outside a connection.                      *)
(***************************************************************************)
EXTENDS UdpStream, SequenceTheorems, TLAPS

-----------------------------------------------------------------------------
(* The connection, in both clients.                                        *)

Disconnecting == pc \in {"leave", "close", "stop", "join"}

(* mRunning and mConnected while connect() and disconnect() set them.      *)
FlagsInv ==
  /\ Disconnecting => ~mRunning
  /\ mConnected => mRunning
  /\ mRunning => mConnected \/ pc \in {"startReceive", "tell"}
  /\ pc \in {"startReceive", "tell"} => mRunning
  /\ pc \in {"destroy", "gone"} => ~mRunning
  /\ mRunning \/ Disconnecting => connects > 0

(* What a client has parsed: mFrameBuffer is empty again as soon as a      *)
(* datagram has come with its end.                                         *)
ParsedInv ==
  /\ mFrameBuffer = "torn" <=>
       Len(received) > 0 /\ ~Fits(received[Len(received)])
  /\ ReceivedIsShown
  /\ io = "poll" => cur = None

-----------------------------------------------------------------------------
(* The Asio client.                                                        *)

(* The io thread between Take and the end of the handler it has taken.     *)
Handling == io \in {"receive", "deliver", "test", "async"}

(* The socket and the io thread while disconnect() takes them away.        *)
AsioLifeInv ==
  /\ ~socketOpen => receives = 0
  /\ pc \in {"stop", "join"} => ~socketOpen
  /\ pc = "join" => ioStopped
  /\ ioStopped /\ pc # "join" => io = "none"
  /\ ~socketOpen /\ ~ioStopped /\ pc # "stop" => io = "none" /\ ready = <<>>
  /\ ~ioStopped /\ mRunning => io # "none"
  /\ ioStopped => connects > 0
  /\ ioStopped /\ mRunning => connects > 1

(* The chain of receives has one end: a receive outstanding, a handler     *)
(* that waits, one that runs, or connect() about to start the first.       *)
OneEnd ==
  /\ pc = "startReceive" => receives = 0
  /\ ~ioStopped =>
       /\ receives > 0 => ready = <<>> /\ ~Handling
       /\ Len(ready) <= 1
       /\ ready # <<>> => ~Handling /\ pc # "startReceive"
       /\ Handling => pc # "startReceive"

-----------------------------------------------------------------------------
(* The Poco client: its thread lives as long as the connection.            *)
PocoLifeInv ==
  /\ mRunning => mConnected /\ ~stopRequested /\ io # "none"
  /\ io # "none" => mRunning \/ Disconnecting

StreamInv ==
  /\ FlagsInv /\ ParsedInv
  /\ backend = "asio" => AsioLifeInv /\ OneEnd
  /\ backend = "poco" => PocoLifeInv

Inv == TypeOK /\ StreamInv

-----------------------------------------------------------------------------
(* The steps of the two clients.                                           *)
AsioStep ==
  \/ Asio!Connect \/ Asio!ConnectFails \/ Asio!Disconnect
  \/ Asio!FirstReceive \/ Asio!TellConnected
  \/ Asio!LeaveFails \/ Asio!CloseSocket \/ Asio!StopIo \/ Asio!Join
  \/ Asio!Take \/ Asio!ThreadExits \/ Asio!HandleReceive \/ Asio!Deliver
  \/ Asio!Rearm \/ Asio!AsyncReceive \/ Asio!ReceiveFails
  \/ \E f \in Frame, again \in BOOLEAN : Asio!Arrive(f, again)

PocoStep ==
  \/ Poco!Connect \/ Poco!ConnectFails \/ Poco!Disconnect
  \/ Poco!TellConnected \/ Poco!RequestStop \/ Poco!CloseSocket \/ Poco!Join
  \/ Poco!Test \/ Poco!PollEnds \/ Poco!Receive \/ Poco!HandleReceivedData
  \/ \E f \in Frame, again \in BOOLEAN : Poco!PollReadable(f, again)

SharedStep == OutsideStep \/ Destroy \/ Destroyed

(* A step is one of the client that was built, or of what both share.      *)
LEMMA NextCases ==
  ASSUME Next
  PROVE  /\ UNCHANGED backend
         /\ \/ backend = "asio" /\ AsioStep /\ UNCHANGED stopRequested
            \/ backend = "poco" /\ PocoStep /\ UNCHANGED asioVars
            \/ SharedStep /\ UNCHANGED <<asioVars, stopRequested>>
<1>1. Asio!CallStep \/ Asio!IoStep \/ Asio!Begins \/ Asio!Receives => AsioStep
  BY DEF AsioStep, Asio!CallStep, Asio!IoStep, Asio!Begins, Asio!Receives,
     Frame, Asio!Frame
<1>2. Poco!CallStep \/ Poco!IoStep \/ Poco!Begins \/ Poco!Receives => PocoStep
  BY DEF PocoStep, Poco!CallStep, Poco!IoStep, Poco!Begins, Poco!Receives,
     Frame, Poco!Frame
<1>3. /\ UNCHANGED backend
      /\ \/ /\ backend = "asio" /\ UNCHANGED stopRequested
            /\ Asio!CallStep \/ Asio!IoStep \/ Asio!Begins \/ Asio!Receives
         \/ /\ backend = "poco" /\ UNCHANGED asioVars
            /\ Poco!CallStep \/ Poco!IoStep \/ Poco!Begins \/ Poco!Receives
         \/ SharedStep /\ UNCHANGED <<asioVars, stopRequested>>
  BY DEF Next, CallStep, IoStep, Of, SharedStep
<1> QED BY <1>1, <1>2, <1>3

(* What a client shows is a frame, or a string that is none: the latter    *)
(* only after a datagram that was cut.                                     *)
LEMMA ParseTyped ==
  ASSUME Inv, Parse
  PROVE  /\ shown' \in Seq(Frame \cup {None})
         /\ received' \in Seq(Frame \cup {None})
         /\ mFrameBuffer' \in {"empty", "torn"}
         /\ mFrameBuffer' = "torn" <=>
              Len(received') > 0 /\ ~Fits(received'[Len(received')])
         /\ Fits(cur) => shown' # <<>>
                         /\ Last(shown') = IF CutBefore' THEN None ELSE cur
<1> USE DEF Inv, TypeOK, MulticastTypeOK
<1>1. /\ received' \in Seq(Frame \cup {None})
      /\ Len(received') = Len(received) + 1 /\ Len(received) \in Nat
      /\ received'[Len(received) + 1] = cur
      /\ Len(received) > 0 =>
           received'[Len(received)] = received[Len(received)]
  BY AppendProperties, LenProperties DEF Parse
<1>2. CutBefore' <=> mFrameBuffer = "torn"
  <2>1. CutBefore' <=> Len(received) > 0 /\ ~Fits(received[Len(received)])
    BY <1>1 DEF CutBefore, Fits, MAX_BUFFER_SIZE
  <2> QED BY <2>1 DEF StreamInv, ParsedInv
<1>3. mFrameBuffer' \in {"empty", "torn"}
      /\ (mFrameBuffer' = "torn" <=> ~Fits(cur))
  BY DEF Parse
<1>4. CASE Fits(cur)
  <2>1. PICK string \in Frame \cup {None} :
          /\ string = IF CutBefore' THEN None ELSE cur
          /\ shown' = Append(shown, string)
    BY <1>2, <1>4 DEF Parse
  <2>2. /\ shown' \in Seq(Frame \cup {None})
        /\ Len(shown') = Len(shown) + 1 /\ Len(shown) \in Nat
        /\ shown'[Len(shown) + 1] = string
    BY <2>1, AppendProperties, LenProperties
  <2>3. shown' # <<>> /\ Last(shown') = string
    BY <2>2 DEF Last
  <2> QED BY <1>1, <1>3, <1>4, <2>1, <2>2, <2>3
          DEF Fits, MAX_BUFFER_SIZE
<1>5. CASE ~Fits(cur)
  BY <1>1, <1>3, <1>5 DEF Parse, Fits, MAX_BUFFER_SIZE
<1> QED BY <1>4, <1>5

(* A step that parses nothing keeps what is known of the frames parsed.    *)
LEMMA StaysParsed ==
  ASSUME ParsedInv, UNCHANGED <<mFrameBuffer, received, shown>>,
         io' \in {"test", "poll"} =>
           cur' = None \/ (io' = io /\ cur' = cur)
  PROVE  ParsedInv'
<1>1. CutBefore' <=> CutBefore
  BY DEF CutBefore, Fits, MAX_BUFFER_SIZE
<1>2. Fits(cur)' <=> Fits(cur')
  BY DEF Fits, MAX_BUFFER_SIZE
<1>3. Fits(received[Len(received)])' <=> Fits(received[Len(received)])
  BY DEF Fits, MAX_BUFFER_SIZE
<1>4. ReceivedIsShown'
  BY <1>1, <1>2 DEF ParsedInv, ReceivedIsShown, None
<1>5. io' = "poll" => cur' = None
  BY DEF ParsedInv
<1> QED BY <1>3, <1>4, <1>5 DEF ParsedInv, None

(* A step that parses a frame, at the end of which the next receive is due *)
(* if at all, does so too.                                                 *)
LEMMA ParsesOn ==
  ASSUME Inv, Parse, UNCHANGED cur, io' = "test"
  PROVE  ParsedInv'
<1>1. Fits(cur)' <=> Fits(cur)
  BY DEF Fits, MAX_BUFFER_SIZE
<1>2. ReceivedIsShown'
  BY <1>1, ParseTyped DEF ReceivedIsShown, None
<1>3. Fits(received[Len(received)])' <=> Fits(received'[Len(received')])
  BY DEF Fits, MAX_BUFFER_SIZE
<1> QED BY <1>2, <1>3, ParseTyped DEF ParsedInv

(* Every step of the Asio client keeps what is known of the frames parsed. *)
LEMMA AsioParses ==
  ASSUME Inv, backend = "asio", AsioStep
  PROVE  ParsedInv'
<1> USE DEF Asio!asioVars, Asio!netVars, Asio!flagVars, Asio!viewVars,
            Asio!Call, Asio!Serve
<1>0. ParsedInv /\ Asio!None = None
  BY DEF Inv, StreamInv, Asio!None, None
<1>1. CASE \/ Asio!Connect \/ Asio!ConnectFails \/ Asio!Disconnect
           \/ Asio!FirstReceive \/ Asio!TellConnected
           \/ Asio!LeaveFails \/ Asio!CloseSocket \/ Asio!StopIo \/ Asio!Join
  BY <1>0, <1>1, StaysParsed
  DEF Asio!Connect, Asio!ConnectFails, Asio!Connecting, Asio!Disconnect,
      Asio!FirstReceive, Asio!TellConnected, Asio!LeaveFails,
      Asio!CloseSocket, Asio!StopIo, Asio!Join
<1>2. CASE Asio!Take \/ Asio!ThreadExits \/ Asio!AsyncReceive \/ Asio!Rearm
  BY <1>0, <1>2, StaysParsed
  DEF Asio!Take, Asio!ThreadExits, Asio!AsyncReceive, Asio!Rearm,
      Asio!AfterPart, Asio!HandleOrder
<1>3. CASE Asio!HandleReceive
  BY <1>0, <1>3, StaysParsed DEF Asio!HandleReceive, Asio!HandleOrder
<1>4. CASE Asio!Deliver
  <2>1. Parse
    BY <1>4 DEF Asio!Deliver, Asio!Parse, Parse, Asio!Fits, Fits,
       Asio!MAX_BUFFER_SIZE, MAX_BUFFER_SIZE, Asio!None, None
  <2>2. io' = "test" /\ UNCHANGED cur
    BY <1>4 DEF Asio!Deliver, Asio!AfterPart, Asio!HandleOrder
  <2> QED BY <2>1, <2>2, ParsesOn
<1>5. CASE \/ Asio!ReceiveFails
           \/ \E f \in Frame, again \in BOOLEAN : Asio!Arrive(f, again)
  BY <1>0, <1>5, StaysParsed
  DEF Asio!ReceiveFails, Asio!Arrive, Asio!Completes, Asio!clientVars
<1> QED BY <1>1, <1>2, <1>3, <1>4, <1>5 DEF AsioStep

(* So does every step of the Poco client.                                  *)
LEMMA PocoParses ==
  ASSUME Inv, backend = "poco", PocoStep
  PROVE  ParsedInv'
<1> USE DEF Poco!netVars, Poco!flagVars, Poco!viewVars, Poco!Call, Poco!Serve
<1>0. ParsedInv /\ Poco!None = None
  BY DEF Inv, StreamInv, Poco!None, None
<1>1. CASE \/ Poco!Connect \/ Poco!ConnectFails \/ Poco!Disconnect
           \/ Poco!TellConnected \/ Poco!RequestStop \/ Poco!CloseSocket
           \/ Poco!Join
  BY <1>0, <1>1, StaysParsed
  DEF Poco!Connect, Poco!ConnectFails, Poco!Connecting, Poco!Disconnect,
      Poco!TellConnected, Poco!RequestStop, Poco!CloseSocket, Poco!Join
<1>2. CASE Poco!PollEnds
  BY <1>0, <1>2, StaysParsed DEF Poco!PollEnds, ParsedInv
<1>3. CASE Poco!Test \/ Poco!Receive
  BY <1>0, <1>3, StaysParsed DEF Poco!Test, Poco!Receive
<1>4. CASE Poco!HandleReceivedData
  <2>1. Parse
    BY <1>4 DEF Poco!HandleReceivedData, Poco!Parse, Parse, Poco!Fits, Fits,
       Poco!MAX_BUFFER_SIZE, MAX_BUFFER_SIZE, Poco!None, None
  <2>2. io' = "test" /\ UNCHANGED cur
    BY <1>4 DEF Poco!HandleReceivedData
  <2> QED BY <2>1, <2>2, ParsesOn
<1>5. CASE \E f \in Frame, again \in BOOLEAN : Poco!PollReadable(f, again)
  BY <1>0, <1>5, StaysParsed DEF Poco!PollReadable
<1> QED BY <1>1, <1>2, <1>3, <1>4, <1>5 DEF PocoStep

-----------------------------------------------------------------------------
(* The Asio client keeps the invariant.                                    *)
LEMMA AsioKeeps ==
  ASSUME Inv, backend = "asio", AsioStep, UNCHANGED <<backend, stopRequested>>
  PROVE  Inv'
<1>0. ParsedInv' /\ Asio!None = None /\ Asio!Frame = Frame
  BY AsioParses DEF Asio!None, None, Asio!Frame, Frame
<1> USE DEF Inv, TypeOK, MulticastTypeOK, StreamInv, FlagsInv, AsioLifeInv,
            OneEnd, Disconnecting, Handling
<1> USE <1>0, StreamAssumption DEF Asio!asioVars, Asio!netVars, Asio!flagVars,
            Asio!viewVars, Asio!Call, Asio!Serve
<1>1. CASE Asio!Connect
  BY <1>1 DEF Asio!Connect, Asio!Connecting
<1>2. CASE Asio!ConnectFails
  BY <1>2 DEF Asio!ConnectFails, Asio!Connecting
<1>3. CASE Asio!Disconnect
  <2>1. /\ pc = "idle" /\ pc' = "leave"
        /\ mRunning' = FALSE /\ mConnected' = FALSE
        /\ UNCHANGED <<server, grid, published, wire, datagrams, io, cur,
                       connects, socketOpen, mFrameBuffer, received, shown,
                       told, ready, receives, ioStopped>>
    BY <1>3 DEF Asio!Disconnect
  <2>2. TypeOK'
    <3>1. TypeOK
      OBVIOUS
    <3> HIDE DEF Inv
    <3>2. mRunning' \in BOOLEAN /\ mConnected' \in BOOLEAN
      BY <2>1, <3>1
    <3>3. MulticastTypeOK'
      BY <2>1, <3>1, <3>2
    <3> QED BY <2>1, <3>1, <3>3
  <2>3. FlagsInv'
    <3>1. FlagsInv /\ mRunning
      BY <1>3 DEF Asio!Disconnect
    <3> HIDE DEF Inv
    <3> QED BY <2>1, <3>1
  <2>4. AsioLifeInv' /\ OneEnd'
    BY <2>1
  <2> QED BY <2>2, <2>3, <2>4
<1>4. CASE Asio!FirstReceive
  BY <1>4 DEF Asio!FirstReceive
<1>5. CASE Asio!TellConnected
  BY <1>5 DEF Asio!TellConnected
<1>6. CASE Asio!LeaveFails
  BY <1>6 DEF Asio!LeaveFails
<1>7. CASE Asio!CloseSocket
  <2> DEFINE aborted == [i \in 1..receives |-> None]
  <2>1. aborted \in Seq(Frame \cup {None}) /\ Len(aborted) = receives
    OBVIOUS
  <2>2. /\ ready' = ready \o aborted
        /\ pc = "leave" /\ pc' = "stop" /\ socketOpen' = FALSE
        /\ receives' = 0
        /\ UNCHANGED <<server, grid, published, wire, datagrams, io, cur,
                       connects, mRunning, mConnected, mFrameBuffer, received,
                       shown, told, ioStopped>>
    BY <1>7 DEF Asio!CloseSocket
  <2>3. ready' \in Seq(Frame \cup {None})
        /\ Len(ready') = Len(ready) + receives
    BY <2>1, <2>2, ConcatProperties
  <2>4. TypeOK'
    <3>1. MulticastTypeOK'
      BY <2>2
    <3>2. ready' \in Seq(Frame \cup {None})
      BY <2>3
    <3>3. receives' \in 0..1 /\ ioStopped' \in BOOLEAN
      BY <2>2
    <3>4. stopRequested' \in BOOLEAN
      OBVIOUS
    <3>5. backend' = backend /\ pc' = "stop" /\ io' = io
      BY <2>2
    <3> QED BY <3>1, <3>2, <3>3, <3>4, <3>5
  <2>6. FlagsInv' /\ AsioLifeInv'
    BY <2>2
  <2>5. ~ioStopped => /\ Len(ready') <= 1
                      /\ ready' # <<>> => ~Handling
    <3>1. CASE ioStopped
      BY <3>1
    <3>2. CASE ~ioStopped /\ receives = 0
      <4>1. ready' # <<>> => ready # <<>>
        BY <2>3, <3>2
      <4> QED BY <2>3, <3>2, <4>1
    <3>3. CASE ~ioStopped /\ receives = 1
      <4>1. Len(ready) = 0
        BY <3>3
      <4> QED BY <2>3, <3>3, <4>1
    <3> QED BY <3>1, <3>2, <3>3
  <2> QED BY <2>2, <2>4, <2>5, <2>6
<1>8. CASE Asio!StopIo
  BY <1>8 DEF Asio!StopIo
<1>9. CASE Asio!Join
  BY <1>9 DEF Asio!Join, Asio!Joined
<1>10. CASE Asio!Take
  BY <1>10 DEF Asio!Take
<1>11. CASE Asio!ThreadExits
  BY <1>11 DEF Asio!ThreadExits
<1>12. CASE Asio!HandleReceive
  BY <1>12 DEF Asio!HandleReceive, Asio!HandleOrder
<1>13. CASE Asio!Deliver
  <2>1. Parse
    BY <1>13 DEF Asio!Deliver, Asio!Parse, Parse, Asio!Fits, Fits,
       Asio!MAX_BUFFER_SIZE, MAX_BUFFER_SIZE
  <2>2. /\ shown' \in Seq(Frame \cup {None})
        /\ received' \in Seq(Frame \cup {None})
        /\ mFrameBuffer' \in {"empty", "torn"}
    BY <2>1, ParseTyped
  <2> QED BY <1>13, <2>2 DEF Asio!Deliver, Asio!AfterPart, Asio!HandleOrder
<1>14. CASE Asio!Rearm
  BY <1>14 DEF Asio!Rearm, Asio!AfterPart, Asio!HandleOrder
<1>15. CASE Asio!AsyncReceive
  <2>1. CASE socketOpen
    BY <1>15, <2>1 DEF Asio!AsyncReceive, Asio!AfterPart, Asio!HandleOrder
  <2>2. CASE ~socketOpen
    <3>1. /\ io = "async" /\ io' = "idle" /\ ready' = Append(ready, None)
          /\ UNCHANGED <<server, grid, published, wire, datagrams, pc, cur,
                         connects, mRunning, mConnected, socketOpen,
                         mFrameBuffer, received, shown, told, receives,
                         ioStopped>>
      BY <1>15, <2>2 DEF Asio!AsyncReceive, Asio!AfterPart, Asio!HandleOrder
    <3>2. ready' \in Seq(Frame \cup {None}) /\ Len(ready') = Len(ready) + 1
      BY <3>1, AppendProperties
    <3>3. ~ioStopped => ready = <<>> /\ Len(ready) = 0
      BY <3>1
    <3>4. TypeOK'
      BY <3>1, <3>2
    <3>5. FlagsInv' /\ AsioLifeInv'
      BY <2>2, <3>1
    <3>6. OneEnd'
      BY <2>2, <3>1, <3>2, <3>3
    <3> QED BY <3>4, <3>5, <3>6
  <2> QED BY <2>1, <2>2
<1>16. CASE Asio!ReceiveFails
  BY <1>16 DEF Asio!ReceiveFails, Asio!Completes, Asio!clientVars
<1>17. ASSUME NEW f \in Frame, NEW again \in BOOLEAN, Asio!Arrive(f, again)
       PROVE  Inv'
  BY <1>17 DEF Asio!Arrive, Asio!Completes, Asio!clientVars, Asio!TakeDatagram
<1> QED BY <1>1, <1>2, <1>3, <1>4, <1>5, <1>6, <1>7, <1>8, <1>9, <1>10,
    <1>11, <1>12, <1>13, <1>14, <1>15, <1>16, <1>17 DEF AsioStep

(* The Poco client keeps the invariant.                                    *)
LEMMA PocoKeeps ==
  ASSUME Inv, backend = "poco", PocoStep, UNCHANGED <<backend, asioVars>>
  PROVE  Inv'
<1>0. ParsedInv' /\ Poco!None = None /\ Poco!Frame = Frame
  BY PocoParses DEF Poco!None, None, Poco!Frame, Frame
<1> USE DEF Inv, TypeOK, MulticastTypeOK, StreamInv, FlagsInv, PocoLifeInv,
            Disconnecting
<1> USE <1>0, StreamAssumption DEF asioVars, Poco!netVars, Poco!flagVars,
            Poco!viewVars, Poco!Call, Poco!Serve
<1>1. CASE Poco!Connect
  <2>1. TypeOK'
    <3>1. MulticastTypeOK'
      BY <1>1 DEF Poco!Connect, Poco!Connecting
    <3>2. stopRequested' \in BOOLEAN /\ pc' = "tell" /\ io' = "test"
      BY <1>1 DEF Poco!Connect, Poco!NewToken
    <3>3. UNCHANGED <<backend, ready, ioStopped, receives>>
      OBVIOUS
    <3> QED BY <3>1, <3>2, <3>3
  <2>2. FlagsInv' /\ PocoLifeInv'
    BY <1>1 DEF Poco!Connect, Poco!Connecting, Poco!NewToken
  <2> QED BY <2>1, <2>2
<1>2. CASE Poco!ConnectFails
  BY <1>2 DEF Poco!ConnectFails, Poco!Connecting
<1>3. CASE Poco!Disconnect
  <2>1. /\ pc = "idle" /\ pc' = "leave" /\ mRunning = TRUE
        /\ mRunning' = FALSE /\ mConnected' = FALSE
        /\ UNCHANGED <<server, grid, published, wire, datagrams, io, cur,
                       connects, socketOpen, mFrameBuffer, received, shown,
                       told, stopRequested>>
    BY <1>3 DEF Poco!Disconnect
  <2>2. TypeOK'
    <3>1. TypeOK
      OBVIOUS
    <3> HIDE DEF Inv
    <3>2. mRunning' \in BOOLEAN /\ mConnected' \in BOOLEAN
      BY <2>1, <3>1
    <3>3. MulticastTypeOK'
      BY <2>1, <3>1, <3>2
    <3> QED BY <2>1, <3>1, <3>3
  <2>3. FlagsInv'
    <3>1. FlagsInv
      OBVIOUS
    <3> HIDE DEF Inv
    <3> QED BY <2>1, <3>1
  <2>4. PocoLifeInv'
    BY <2>1
  <2> QED BY <2>2, <2>3, <2>4
<1>4. CASE Poco!TellConnected
  BY <1>4 DEF Poco!TellConnected
<1>5. CASE Poco!RequestStop
  BY <1>5 DEF Poco!RequestStop
<1>6. CASE Poco!CloseSocket
  <2>1. /\ pc = "close" /\ pc' = "join" /\ socketOpen' = FALSE
        /\ UNCHANGED <<server, grid, published, wire, datagrams, io, cur,
                       connects, mRunning, mConnected, mFrameBuffer, received,
                       shown, told, stopRequested>>
    BY <1>6 DEF Poco!CloseSocket
  <2>2. TypeOK'
    <3>1. TypeOK
      OBVIOUS
    <3> HIDE DEF Inv
    <3>2. mRunning' \in BOOLEAN /\ socketOpen' \in BOOLEAN
      BY <2>1, <3>1
    <3>3. MulticastTypeOK'
      BY <2>1, <3>1, <3>2
    <3> QED BY <2>1, <3>1, <3>3
  <2>3. FlagsInv' /\ PocoLifeInv'
    <3>1. FlagsInv /\ PocoLifeInv
      BY DEF Inv
    <3> HIDE DEF Inv
    <3> QED BY <2>1, <3>1
  <2> QED BY <2>2, <2>3
<1>7. CASE Poco!Join
  BY <1>7 DEF Poco!Join, Poco!Joined
<1>8. CASE Poco!Test
  BY <1>8 DEF Poco!Test, Poco!Leaves
<1>9. CASE Poco!PollEnds
  BY <1>9 DEF Poco!PollEnds
<1>10. CASE Poco!Receive
  BY <1>10 DEF Poco!Receive
<1>11. CASE Poco!HandleReceivedData
  <2>1. Parse
    BY <1>11 DEF Poco!HandleReceivedData, Poco!Parse, Parse, Poco!Fits, Fits,
       Poco!MAX_BUFFER_SIZE, MAX_BUFFER_SIZE
  <2>2. /\ shown' \in Seq(Frame \cup {None})
        /\ received' \in Seq(Frame \cup {None})
        /\ mFrameBuffer' \in {"empty", "torn"}
    BY <2>1, ParseTyped
  <2> QED BY <1>11, <2>2 DEF Poco!HandleReceivedData
<1>12. ASSUME NEW f \in Frame, NEW again \in BOOLEAN,
              Poco!PollReadable(f, again)
       PROVE  Inv'
  BY <1>12 DEF Poco!PollReadable, Poco!TakeDatagram
<1> QED BY <1>1, <1>2, <1>3, <1>4, <1>5, <1>6, <1>7, <1>8, <1>9, <1>10,
    <1>11, <1>12 DEF PocoStep

(* So do the server, the network and the destructor.                       *)
LEMMA SharedKeeps ==
  ASSUME Inv, SharedStep, UNCHANGED <<backend, asioVars, stopRequested>>
  PROVE  Inv'
<1>0. ParsedInv'
  BY StaysParsed DEF Inv, StreamInv, SharedStep, OutsideStep, Destroy,
     Destroyed, Call, netVars, clientVars, flagVars, viewVars
<1> USE <1>0
    DEF Inv, TypeOK, MulticastTypeOK, StreamInv, FlagsInv, AsioLifeInv,
        OneEnd, PocoLifeInv, Disconnecting, Handling, asioVars
<1>1. CASE OutsideStep
  <2>1. /\ server' \in {"new", "running", "stopped"}
        /\ grid' \in FrameLengths
        /\ published' \in 0..MaxFrames /\ wire' \subseteq Frame
    <3>1. CASE StartServer
      BY <3>1 DEF StartServer
    <3>2. CASE BroadcastData
      BY <3>2, StreamAssumption DEF BroadcastData, Frame
    <3>3. CASE StopServer
      BY <3>3 DEF StopServer
    <3>4. ASSUME NEW f \in Frame, Lose(f)
          PROVE  UNCHANGED <<server, grid, published>> /\ wire' \subseteq wire
      BY <3>4 DEF Lose
    <3> QED BY <1>1, <3>1, <3>2, <3>3, <3>4 DEF OutsideStep
  <2> QED BY <1>1, <2>1 DEF OutsideStep, clientVars, flagVars, viewVars
<1>2. CASE Destroy
  BY <1>2 DEF Destroy, Call, netVars, flagVars, viewVars
<1>3. CASE Destroyed
  BY <1>3 DEF Destroyed, Call, netVars, flagVars, viewVars
<1> QED BY <1>1, <1>2, <1>3 DEF SharedStep

(* The inductive invariant holds always, for either client.                *)
LEMMA InvInvariant == Spec => []Inv
<1>0. Asio!None = None /\ Poco!None = None
  BY DEF Asio!None, Poco!None, None
<1>1. Init => Inv
  <2> SUFFICES ASSUME Init PROVE Inv
    OBVIOUS
  <2> USE DEF Init, Asio!AsioInit, Poco!PocoInit, Asio!MulticastInit,
              Poco!MulticastInit
  <2> USE <1>0
  <2>1. <<>> \in Seq(Frame \cup {None}) /\ Len(<<>>) = 0
    OBVIOUS
  <2>2. published \in 0..MaxFrames /\ datagrams \in 0..MaxDatagrams
        /\ connects \in 0..MaxConnects
    BY StreamAssumption
  <2>3. TypeOK
    <3>1. MulticastTypeOK
      BY <2>1, <2>2 DEF MulticastTypeOK
    <3>2. ready \in Seq(Frame \cup {None})
      BY <2>1
    <3>3. ioStopped \in BOOLEAN /\ stopRequested \in BOOLEAN
      BY Zenon
    <3>5. receives \in 0..1
      OBVIOUS
    <3>4. backend \in {"asio", "poco"} 
          /\ pc \in {"idle", "startReceive", "tell", "leave", "close", "stop",
                     "join", "destroy", "gone"}
          /\ io \in {"none", "idle", "test", "async", "poll", "receive",
                     "deliver"}
      OBVIOUS
    <3> QED BY <3>1, <3>2, <3>3, <3>4, <3>5, Zenon DEF TypeOK
  <2>4. FlagsInv /\ ParsedInv
    BY <2>1 DEF FlagsInv, ParsedInv, ReceivedIsShown, Disconnecting
  <2>5. AsioLifeInv /\ OneEnd /\ PocoLifeInv
    BY <2>1 DEF AsioLifeInv, OneEnd, PocoLifeInv, Handling
  <2> QED BY <2>3, <2>4, <2>5 DEF Inv, StreamInv
<1>2. Inv /\ Next => Inv'
  BY NextCases, AsioKeeps, PocoKeeps, SharedKeeps
<1>3. Inv /\ UNCHANGED vars => Inv'
  <2> SUFFICES ASSUME Inv, UNCHANGED vars PROVE Inv'
    OBVIOUS
  <2>1. ParsedInv'
    BY StaysParsed DEF Inv, StreamInv, vars, clientVars, viewVars
  <2> QED BY <2>1 DEF Inv, TypeOK, MulticastTypeOK, StreamInv, FlagsInv,
             AsioLifeInv, OneEnd, PocoLifeInv, Disconnecting, Handling, vars,
             netVars, clientVars, flagVars, viewVars, asioVars
<1> QED BY <1>1, <1>2, <1>3, PTL DEF Spec

(* Every variable has its type: the Asio client has one receive            *)
(* outstanding at most, and shows frames or strings that are none.         *)
THEOREM TypesHold == Spec => []TypeOK
BY InvInvariant, PTL DEF Inv

(* While a receive is outstanding, which writes mReceiveBuffer and         *)
(* mSenderEndpoint, no handler that has bytes of theirs runs or waits.     *)
THEOREM ReceiveBufferIsOwned == Spec => []BufferUnshared
<1>1. Inv => BufferUnshared
  <2> SUFFICES ASSUME Inv, backend = "asio", receives > 0
               PROVE  /\ ~(io \in {"receive", "deliver"} /\ cur # Asio!None)
                      /\ ~(~ioStopped /\ \E i \in DOMAIN ready :
                                             ready[i] # Asio!None)
    BY DEF BufferUnshared, Asio!OneReceive
  <2>1. ~Handling
    BY DEF Inv, StreamInv, AsioLifeInv, OneEnd, Handling
  <2>2. ~ioStopped => ready = <<>>
    BY DEF Inv, StreamInv, OneEnd
  <2> QED BY <2>1, <2>2 DEF Handling
<1> QED BY <1>1, InvInvariant, PTL

(* Whatever grids the servers have, and whatever the network loses,        *)
(* doubles and reorders: a frame that fits the receive buffer is shown     *)
(* whole before the next receive, unless the datagram received just before *)
(* it was cut.                                                             *)
THEOREM DatagramsAreShown == Spec => []ReceivedIsShown
<1>1. Inv => ReceivedIsShown
  BY DEF Inv, StreamInv, ParsedInv
<1> QED BY <1>1, InvInvariant, PTL

(* A client that has told of its connection has a thread that receives:    *)
(* the Poco client always, the Asio client in its first connection.        *)
THEOREM ConnectionHasThread == Spec => []FirstConnectionReceives
<1>1. Inv => FirstConnectionReceives
  BY DEF Inv, TypeOK, StreamInv, FlagsInv, AsioLifeInv, PocoLifeInv,
     FirstConnectionReceives
<1> QED BY <1>1, InvInvariant, PTL

-----------------------------------------------------------------------------
(* The clients implement the contract of IClient.                          *)

(* The client may call back: as Contract has it.                           *)
Active ==
  \/ mRunning \/ pc \notin {"idle", "destroy", "gone"}
  \/ socketOpen /\ io # "none"

(* A thread that receives, receives for a connection.                      *)
LEMMA ThreadIsActive ==
  ASSUME Inv, io # "none"
  PROVE  Active
BY DEF Inv, TypeOK, StreamInv, AsioLifeInv, PocoLifeInv, Disconnecting, Active

(* A client that is not connected has neither a thread nor mRunning.       *)
LEMMA IdleIsInactive ==
  ASSUME Inv, pc = "idle", ~mConnected,
         backend = "poco" \/ ~socketOpen
  PROVE  ~mRunning /\ io = "none" /\ ~Active
BY DEF Inv, TypeOK, StreamInv, FlagsInv, AsioLifeInv, PocoLifeInv,
   Disconnecting, Active

(* What a step may do: nothing that concerns the contract, or one of its   *)
(* actions.                                                                *)
Quiet == UNCHANGED <<told, shown>> /\ (Active' <=> Active)

(* A step that reports nothing and leaves the connection as it was is a    *)
(* stutter of the contract.                                                *)
LEMMA QuietStutters ==
  ASSUME Quiet
  PROVE  UNCHANGED <<mRunning \/ pc \notin {"idle", "destroy", "gone"}
                       \/ (socketOpen /\ io # "none"), told, shown>>
BY DEF Quiet, Active

Allowed ==
  \/ Quiet
  \/ ~Active /\ Active' /\ UNCHANGED <<told, shown>>
  \/ Active /\ Active' /\ told' \in {"connected", "lost"} /\ UNCHANGED shown
  \/ /\ Active /\ Active' /\ UNCHANGED told
     /\ \E f \in Frame \cup {None} : shown' = Append(shown, f)
  \/ Active /\ ~Active' /\ told' \in {told, "lost"} /\ UNCHANGED shown

(* What the steps of the clients are allowed to do is in the contract.     *)
LEMMA AllowedIsContract ==
  ASSUME Allowed
  PROVE  Contract!Next
         \/ UNCHANGED <<mRunning \/ pc \notin {"idle", "destroy", "gone"}
                          \/ (socketOpen /\ io # "none"), told, shown>>
<1>1. CASE Quiet
  BY <1>1, QuietStutters
<1>2. CASE ~Active /\ Active' /\ UNCHANGED <<told, shown>>
  BY <1>2 DEF Active, Contract!Next, Contract!Begin
<1>3. CASE Active /\ Active' /\ told' \in {"connected", "lost"}
           /\ UNCHANGED shown
  BY <1>3 DEF Active, Contract!Next, Contract!Report
<1>4. CASE /\ Active /\ Active' /\ UNCHANGED told
           /\ \E f \in Frame \cup {None} : shown' = Append(shown, f)
  BY <1>4 DEF Active, Contract!Next, Contract!Show
<1>5. CASE Active /\ ~Active' /\ told' \in {told, "lost"} /\ UNCHANGED shown
  BY <1>5 DEF Active, Contract!Next, Contract!End
<1> QED BY <1>1, <1>2, <1>3, <1>4, <1>5 DEF Allowed

(* Every step of the Asio client's own code is allowed.                    *)
LEMMA AsioAllowed ==
  ASSUME Inv, backend = "asio", AsioStep
  PROVE  Allowed
<1> USE DEF Asio!netVars, Asio!flagVars, Asio!viewVars, Asio!Call, Asio!Serve
<1>0. Active \in BOOLEAN /\ FlagsInv /\ AsioLifeInv
  BY DEF Inv, StreamInv, Active
<1>1. CASE Asio!Connect
  <2>1. ~Active
    BY <1>1, IdleIsInactive DEF Asio!Connect, Asio!Connecting
  <2> QED BY <1>1, <2>1
          DEF Asio!Connect, Asio!Connecting, Active, Allowed
<1>2. CASE Asio!ConnectFails
  <2>1. ~mRunning /\ io = "none" /\ ~Active
    BY <1>2, IdleIsInactive DEF Asio!ConnectFails, Asio!Connecting
  <2> QED BY <1>2, <2>1
          DEF Asio!ConnectFails, Asio!Connecting, Active, Allowed, Quiet
<1>3. CASE Asio!Disconnect
  BY <1>3 DEF Asio!Disconnect, Active, Allowed, Quiet
<1>4. CASE Asio!FirstReceive
  BY <1>4 DEF Asio!FirstReceive, Active, Allowed, Quiet
<1>5. CASE Asio!TellConnected
  BY <1>0, <1>5 DEF Asio!TellConnected, FlagsInv, Active, Allowed
<1>6. CASE Asio!LeaveFails
  BY <1>6 DEF Asio!LeaveFails, Active, Allowed, Quiet
<1>7. CASE Asio!CloseSocket
  BY <1>7 DEF Asio!CloseSocket, Active, Allowed, Quiet
<1>8. CASE Asio!StopIo
  BY <1>8 DEF Asio!StopIo, Active, Allowed, Quiet
<1>9. CASE Asio!Join
  BY <1>0, <1>9
  DEF Asio!Join, Asio!Joined, FlagsInv, Disconnecting, Active, Allowed
<1>10. CASE Asio!Take
  BY <1>10 DEF Asio!Take, Active, Allowed, Quiet
<1>11. CASE Asio!ThreadExits
  BY <1>0, <1>11
  DEF Asio!ThreadExits, AsioLifeInv, Active, Allowed, Quiet
<1>12. CASE Asio!HandleReceive
  BY <1>12 DEF Asio!HandleReceive, Asio!HandleOrder, Active, Allowed, Quiet
<1>13. CASE Asio!Deliver
  <2>1. Active /\ Active'
    BY <1>13, ThreadIsActive
    DEF Asio!Deliver, Asio!AfterPart, Asio!HandleOrder, Active
  <2>2. /\ UNCHANGED told
        /\ \/ UNCHANGED shown
           \/ \E f \in Frame \cup {None} : shown' = Append(shown, f)
    BY <1>13 DEF Asio!Deliver, Asio!Parse, Asio!None, None, Inv, TypeOK,
       MulticastTypeOK
  <2> QED BY <2>1, <2>2 DEF Allowed, Quiet
<1>14. CASE Asio!Rearm
  BY <1>14
  DEF Asio!Rearm, Asio!AfterPart, Asio!HandleOrder, Active, Allowed, Quiet
<1>15. CASE Asio!AsyncReceive
  BY <1>15 DEF Asio!AsyncReceive, Asio!AfterPart, Asio!HandleOrder, Active,
     Allowed, Quiet
<1>16. CASE Asio!ReceiveFails
  BY <1>16 DEF Asio!ReceiveFails, Asio!Completes, Asio!clientVars, Active,
     Allowed, Quiet
<1>17. ASSUME NEW f \in Frame, NEW again \in BOOLEAN, Asio!Arrive(f, again)
       PROVE  Allowed
  BY <1>17 DEF Asio!Arrive, Asio!Completes, Asio!clientVars, Active, Allowed,
     Quiet
<1> QED BY <1>1, <1>2, <1>3, <1>4, <1>5, <1>6, <1>7, <1>8, <1>9, <1>10,
    <1>11, <1>12, <1>13, <1>14, <1>15, <1>16, <1>17 DEF AsioStep

(* Every step of the Poco client's own code is allowed.                    *)
LEMMA PocoAllowed ==
  ASSUME Inv, backend = "poco", PocoStep
  PROVE  Allowed
<1> USE DEF Poco!netVars, Poco!flagVars, Poco!viewVars, Poco!Call, Poco!Serve
<1>0. Active \in BOOLEAN /\ FlagsInv /\ PocoLifeInv
  BY DEF Inv, StreamInv, Active
<1>1. CASE Poco!Connect
  <2>1. ~Active
    BY <1>1, IdleIsInactive DEF Poco!Connect, Poco!Connecting
  <2> QED BY <1>1, <2>1
          DEF Poco!Connect, Poco!Connecting, Active, Allowed
<1>2. CASE Poco!ConnectFails
  <2>1. ~mRunning /\ io = "none" /\ ~Active
    BY <1>2, IdleIsInactive DEF Poco!ConnectFails, Poco!Connecting
  <2> QED BY <1>2, <2>1
          DEF Poco!ConnectFails, Poco!Connecting, Active, Allowed, Quiet
<1>3. CASE Poco!Disconnect
  BY <1>3 DEF Poco!Disconnect, Active, Allowed, Quiet
<1>4. CASE Poco!TellConnected
  BY <1>0, <1>4 DEF Poco!TellConnected, FlagsInv, Active, Allowed
<1>5. CASE Poco!RequestStop
  BY <1>5 DEF Poco!RequestStop, Active, Allowed, Quiet
<1>6. CASE Poco!CloseSocket
  BY <1>6 DEF Poco!CloseSocket, Active, Allowed, Quiet
<1>7. CASE Poco!Join
  BY <1>0, <1>7
  DEF Poco!Join, Poco!Joined, FlagsInv, Disconnecting, Active, Allowed
<1>8. CASE Poco!Test
  BY <1>0, <1>8
  DEF Poco!Test, Poco!Leaves, PocoLifeInv, Disconnecting, Active, Allowed, Quiet
<1>9. CASE Poco!PollEnds
  BY <1>9 DEF Poco!PollEnds, Active, Allowed, Quiet
<1>10. CASE Poco!Receive
  BY <1>10 DEF Poco!Receive, Active, Allowed, Quiet
<1>11. CASE Poco!HandleReceivedData
  <2>1. Active /\ Active'
    BY <1>11, ThreadIsActive DEF Poco!HandleReceivedData, Active
  <2>2. /\ UNCHANGED told
        /\ \/ UNCHANGED shown
           \/ \E f \in Frame \cup {None} : shown' = Append(shown, f)
    BY <1>11 DEF Poco!HandleReceivedData, Poco!Parse, Poco!None, None, Inv,
       TypeOK, MulticastTypeOK
  <2> QED BY <2>1, <2>2 DEF Allowed, Quiet
<1>12. ASSUME NEW f \in Frame, NEW again \in BOOLEAN,
              Poco!PollReadable(f, again)
       PROVE  Allowed
  BY <1>12 DEF Poco!PollReadable, Poco!TakeDatagram, Active, Allowed, Quiet
<1> QED BY <1>1, <1>2, <1>3, <1>4, <1>5, <1>6, <1>7, <1>8, <1>9, <1>10,
    <1>11, <1>12 DEF PocoStep

(* Every step of the shared frame parser, the server and the network is    *)
(* allowed.                                                                *)
LEMMA SharedAllowed ==
  ASSUME Inv, SharedStep
  PROVE  Allowed
<1>1. CASE OutsideStep
  BY <1>1 DEF OutsideStep, clientVars, flagVars, viewVars, Active, Allowed,
     Quiet
<1>2. CASE Destroy
  BY <1>2 DEF Destroy, Call, flagVars, viewVars, Active, Allowed, Quiet
<1>3. CASE Destroyed
  BY <1>3 DEF Destroyed, Call, flagVars, viewVars, Active, Allowed, Quiet
<1> QED BY <1>1, <1>2, <1>3 DEF SharedStep

(* Both UDP clients keep the contract of IClient: no callback comes before *)
(* connect() or after the disconnect() that ends the connection.           *)
THEOREM KeepsContract == Spec => ContractSpec
<1>1. Init => Contract!Init
  BY DEF Init, Asio!AsioInit, Asio!MulticastInit, Contract!Init
<1>2. Inv /\ [Next]_vars => [Contract!Next]_(Contract!contractVars)
  <2>1. ASSUME Inv, Next
        PROVE  [Contract!Next]_(Contract!contractVars)
    <3>1. Allowed
      BY <2>1, NextCases, AsioAllowed, PocoAllowed, SharedAllowed
    <3> QED BY <3>1, AllowedIsContract DEF Contract!contractVars
  <2>2. UNCHANGED vars => UNCHANGED Contract!contractVars
    BY DEF vars, clientVars, flagVars, viewVars, Contract!contractVars
  <2> QED BY <2>1, <2>2
<1> QED BY <1>1, <1>2, InvInvariant, PTL DEF Spec, ContractSpec, Contract!Spec
=============================================================================
