------------------------------- MODULE UdpStream -------------------------------
(***************************************************************************)
(* A client of one of the two UDP backends, which the build chooses        *)
(* (StreamingFactory.cpp), and the server, the network and the caller      *)
(* around it.                                                              *)
(***************************************************************************)
EXTENDS Multicast

VARIABLES backend,                     \* "asio" or "poco"
          ready, ioStopped, receives,  \* of AsioClient
          stopRequested                \* of PocoClient

Asio == INSTANCE AsioClient
Poco == INSTANCE PocoClient

asioVars == <<ready, ioStopped, receives>>
vars == <<netVars, clientVars, backend, asioVars, stopRequested>>

TypeOK ==
  /\ MulticastTypeOK /\ backend \in {"asio", "poco"}
  /\ pc \in {"idle", "startReceive", "tell", "leave", "close", "stop", "join",
             "destroy", "gone"}
  /\ io \in {"none", "idle", "test", "async", "poll", "receive", "deliver"}
  /\ ready \in Seq(Frame \cup {None}) /\ ioStopped \in BOOLEAN
  /\ receives \in 0..1 /\ stopRequested \in BOOLEAN

(* createClient(): the build has one backend.                              *)
Init == backend \in {"asio", "poco"} /\ Asio!AsioInit /\ Poco!PocoInit

(* The step of the client that the build contains.                         *)
Of(asio, poco) ==
  /\ UNCHANGED backend
  /\ \/ backend = "asio" /\ asio /\ UNCHANGED stopRequested
     \/ backend = "poco" /\ poco /\ UNCHANGED asioVars

CallStep ==
  \/ Of(Asio!CallStep, Poco!CallStep)
  \/ Destroyed /\ UNCHANGED <<backend, asioVars, stopRequested>>

IoStep == Of(Asio!IoStep, Poco!IoStep)

Next ==
  \/ CallStep \/ IoStep
  \/ Of(Asio!Begins, Poco!Begins) \/ Of(Asio!Receives, Poco!Receives)
  \/ /\ OutsideStep \/ Destroy
     /\ UNCHANGED <<backend, asioVars, stopRequested>>

(* The caller and the receiving thread run; the network owes nothing.      *)
Spec == Init /\ [][Next]_vars /\ WF_vars(CallStep) /\ WF_vars(IoStep)

-----------------------------------------------------------------------------
(* Properties.                                                             *)

(* Every receive writes mReceiveBuffer and mSenderEndpoint: none is        *)
(* outstanding while the handler of another uses them or is still to be    *)
(* run (Asio/Client.cpp:132-165), through reconnects and failures.         *)
BufferUnshared == backend = "asio" => Asio!OneReceive

(* The datagram before the one received last was longer than the buffer.   *)
CutBefore ==
  Len(received) > 1 /\ ~Fits(received[Len(received) - 1])

(* A frame that fits mReceiveBuffer has been given to the application, and *)
(* alone, before the next receive (Asio/Client.cpp:146-163,                *)
(* Poco/Client.cpp:162-166, 202-222).  One that does not fit costs at most *)
(* the one that is received after it, of which a torn string is made, even *)
(* over a reconnect, and nothing is torn for another reason.               *)
ReceivedIsShown ==
  io = "test" /\ cur # None /\ Fits(cur) =>
    shown # <<>> /\ Last(shown) = IF CutBefore THEN None ELSE cur

(* A client that has told of its connection has a thread that receives     *)
(* (Client/Application.cpp:121): the Poco client in every connection, the  *)
(* Asio client in its first one only (see ConnectedReceives).              *)
FirstConnectionReceives ==
  mConnected /\ (backend = "poco" \/ connects = 1) => io # "none"

(* Every step is one of the contract of IClient: no callback comes once    *)
(* disconnect() has returned until the next connect(), unless it returned  *)
(* early because leaving the group failed (Asio/Client.cpp:76-114,         *)
(* Poco/Client.cpp:85-138).                                                *)
Contract == INSTANCE ClientContract WITH
              Frames <- Frame \cup {None},
              active <- \/ mRunning \/ pc \notin {"idle", "destroy", "gone"}
                        \/ socketOpen /\ io # "none"
ContractSpec == Contract!Spec

(* disconnect() returns, whatever the receiving thread is doing: blocked   *)
(* in poll, in a callback or about to receive (Asio/Client.cpp:93-105,     *)
(* Poco/Client.cpp:94-105, 160-177).                                       *)
DisconnectReturns == pc = "leave" ~> pc = "idle"

(* "mOnDataReceived(completeFrame)" (Asio/Client.cpp:155): a frame that is *)
(* received is given to the application.  The code does not keep this for  *)
(* frames of more than 4096 bytes, nor for those received after one.       *)
EveryFrameShown ==
  io = "test" /\ cur # None => shown # <<>> /\ Last(shown) = cur

(* "Connected to server!" (Client/Application.cpp:121): a client that says *)
(* so has a thread that receives.  The Asio client does not keep this.     *)
ConnectedReceives == mConnected /\ pc = "idle" => io # "none"

(* "Client shutdown complete." (Client/Application.cpp:91): the destructor *)
(* of the client, which shutdown() waits for, returns.  The Asio client    *)
(* does not keep this.                                                     *)
DestructorReturns == pc = "destroy" ~> pc = "gone"
=============================================================================
