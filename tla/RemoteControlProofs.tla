------------------------ MODULE RemoteControlProofs ------------------------
(***************************************************************************)
(* Proofs about RemoteControl, for any tablets, sessions, messages and     *)
(* positions.                                                              *)
(***************************************************************************)
EXTENDS RemoteControl, TLAPS

-----------------------------------------------------------------------------
(* The operators the actions are built from keep positions positions. *)

\* The controls start at a position.
LEMMA StartValuesType == StartValues \in Position
  BY DEF StartValues, Position, Axes

\* A session starts from a position: the hand angle it sends is 0.
LEMMA HandZeroType ==
  ASSUME NEW p \in Position
  PROVE  [p EXCEPT !["hand"] = 0] \in Position
  BY DEF Position, Axes

\* Easing between two integers shows an integer.
LEMMA EasedType ==
  ASSUME NEW i \in Int, NEW j \in Int
  PROVE  Eased(i, j) \in Int
  BY SMT DEF Eased, EaseStep, Abs

\* setValue clamps integers to integers.
LEMMA ClampType ==
  ASSUME NEW a \in Axes, NEW v \in Int
  PROVE  Clamp(a, v) \in Int
  BY DEF Clamp, Low, High, Axes

\* A message of the tablet turns a position into a position.
LEMMA MovedType ==
  ASSUME NEW p \in Position, NEW m
  PROVE  Moved(p, m) \in Position
<1>1. \A k \in DOMAIN ShiftAxis : ShiftAxis[k] \in Axes /\ ShiftBy[k] \in Int
  BY DEF ShiftAxis, ShiftBy, Axes
<1> QED
  BY <1>1 DEF Moved, Position

-----------------------------------------------------------------------------
(* Type correctness. *)

\* What the program starts with has its type.
LEMMA TypeInit == Init => TypeOK
<1> SUFFICES ASSUME Init PROVE TypeOK
  OBVIOUS
<1>1. LinkTypeOK
  BY MaxRequestsAssumption
  DEF Init, LinkInit, LinkTypeOK, NoRequest, Request, RequestState
<1>2. PanelTypeOK
  <2>1. arm \in Frame
    BY StartValuesType DEF Init, PanelInit, Frame, Catch, Release
  <2>2. serialUp \in BOOLEAN
    BY SerialAssumption, Zenon DEF Init, PanelInit
  <2>3. inputs \in 0..MaxInputs
    BY InputsAssumption DEF Init, PanelInit
  <2> QED
    BY <2>1, <2>2, <2>3, StartValuesType DEF Init, PanelInit, PanelTypeOK
<1>3. SessionTypeOK
  BY StartValuesType
  DEF Init, SessionInit, SessionTypeOK, ThreadState, Catch, Release
<1> QED
  BY <1>1, <1>2, <1>3 DEF Init, TypeOK

\* A tablet's new request keeps the link well-typed.
LEMMA SendType ==
  ASSUME LinkTypeOK, NEW c \in Clients, NEW m \in Messages, Send(c, m)
  PROVE  LinkTypeOK'
  BY MaxRequestsAssumption DEF LinkTypeOK, Send, Request, RequestState

\* So do requests and replies that arrive.
LEMMA NetworkType ==
  ASSUME LinkTypeOK, NEW c \in Clients, Deliver(c) \/ Receive(c)
  PROVE  LinkTypeOK'
  BY DEF LinkTypeOK, Deliver, Receive, Request, RequestState, NoRequest

\* So do the four operations of a server's socket.
LEMMA SocketType ==
  ASSUME LinkTypeOK, NEW s \in Servers,
         \/ Bind(s) \/ (\E c \in Clients : Take(s, c))
         \/ Reply(s) \/ CloseSocket(s)
  PROVE  LinkTypeOK'
<1>1. CASE Bind(s)
  BY <1>1 DEF LinkTypeOK, Bind
<1>2. CASE \E c \in Clients : Take(s, c)
  BY <1>2 DEF LinkTypeOK, Take, Request, RequestState
<1>3. CASE Reply(s)
  BY <1>3 DEF LinkTypeOK, Reply, Request, RequestState
<1>4. CASE CloseSocket(s)
  BY <1>4 DEF LinkTypeOK, CloseSocket, Request, RequestState
<1> QED
  BY <1>1, <1>2, <1>3, <1>4

\* setValue keeps the targets of the controls a position.
LEMMA SetValueType ==
  ASSUME target \in Position, NEW A, NEW p \in Position, SetValue(A, p)
  PROVE  target' \in Position
  BY ClampType DEF SetValue, Position

\* An animation frame keeps the panel well-typed.
LEMMA DrawType ==
  ASSUME PanelTypeOK, Draw
  PROVE  PanelTypeOK'
<1>1. shown' \in Position
  BY EasedType DEF PanelTypeOK, Draw, Position
<1>2. arm' \in Frame
  <2>1. arm' = arm \/ arm' = [at |-> shown', ctl |-> suctionCup, by |-> Console]
    BY Zenon DEF Draw, SendPos, armVars
  <2> QED
    BY <1>1, <2>1 DEF PanelTypeOK, Frame
<1>3. updateEn' \in BOOLEAN /\ writeFailed' \in BOOLEAN
  BY Zenon DEF Draw, SendPos, UpdateDone, PanelTypeOK, armVars
<1>4. awake' \in BOOLEAN
  BY Zenon DEF PanelTypeOK, Draw
<1> QED
  BY <1>1, <1>2, <1>3, <1>4 DEF PanelTypeOK, Draw

\* So does a use of a control or of button1.
LEMMA PanelInputType ==
  ASSUME PanelTypeOK, PanelInput
  PROVE  PanelTypeOK'
<1>1. CASE \E A \in Controls, p \in PanelPoints : MoveControl(A, p)
  <2>1. target' \in Position
    BY <1>1, SetValueType, PointsAssumption DEF MoveControl, PanelTypeOK
  <2>2. userSet' \subseteq Axes
    BY <1>1 DEF MoveControl, PanelTypeOK, Controls, Axes
  <2> QED
    BY <1>1, <2>1, <2>2, InputsAssumption DEF MoveControl, PanelTypeOK, armVars
<1>2. CASE ToggleSuction
  BY <1>2, InputsAssumption DEF ToggleSuction, Toggled, PanelTypeOK, armVars
<1> QED
  BY <1>1, <1>2 DEF PanelInput

\* A step of a session's thread.
LEMMA ThreadType ==
  ASSUME TypeOK, NEW s \in Sessions, SessionStep(s)
  PROVE  LinkTypeOK' /\ PanelTypeOK' /\ SessionTypeOK'
<1>0. s \in Servers
  BY SessionsAssumption
<1>1. CASE SessionBind(s)
  <2>1. LinkTypeOK'
    BY <1>0, <1>1, SocketType DEF SessionBind, TypeOK
  <2> QED
    BY <1>1, <2>1 DEF SessionBind, TypeOK, SessionTypeOK, PanelTypeOK, panelVars, armVars,
                      GoTo, ThreadState
<1>2. CASE SessionRecv(s)
  <2>1. LinkTypeOK'
    BY <1>0, <1>2, SocketType DEF SessionRecv, TypeOK
  <2> QED
    BY <1>2, <2>1 DEF SessionRecv, TypeOK, SessionTypeOK, PanelTypeOK, panelVars, armVars,
                      GoTo, ThreadState
<1>3. CASE SessionCheck(s)
  <2>1. loc' \in [Sessions -> Position]
    BY <1>3, MovedType DEF SessionCheck, TypeOK, SessionTypeOK
  <2>2. pc' \in [Sessions -> ThreadState]
    BY <1>3 DEF SessionCheck, AfterCheck, GoTo, TypeOK, SessionTypeOK, ThreadState
  <2> QED
    BY <1>3, <2>1, <2>2 DEF SessionCheck, TypeOK, SessionTypeOK, LinkTypeOK,
                            PanelTypeOK, linkVars, panelVars, armVars
<1>4. CASE SessionReply(s)
  <2>1. LinkTypeOK'
    BY <1>0, <1>4, SocketType DEF SessionReply, TypeOK
  <2> QED
    BY <1>4, <2>1 DEF SessionReply, TypeOK, SessionTypeOK, PanelTypeOK, panelVars, armVars,
                      GoTo, ThreadState
<1>5. CASE SessionMove(s)
  <2>1. arm' \in Frame
    BY <1>5 DEF SessionMove, SendPos, Frame, TypeOK, PanelTypeOK, SessionTypeOK, armVars
  <2>0. writeFailed' \in BOOLEAN
    BY <1>5, Zenon DEF SessionMove, SendPos, TypeOK, PanelTypeOK, armVars
  <2>2. pc' \in [Sessions -> ThreadState] /\ lateMoves' \in Nat
    BY <1>5 DEF SessionMove, GoTo, TypeOK, SessionTypeOK, ThreadState
  <2> QED
    BY <1>5, <2>0, <2>1, <2>2 DEF SessionMove, TypeOK, SessionTypeOK, LinkTypeOK,
                            PanelTypeOK, linkVars
<1>6. CASE SessionAim(s) \/ SessionLift(s)
  <2>1. target' \in Position
    BY <1>6, SetValueType DEF SessionAim, SessionLift, TypeOK, SessionTypeOK, PanelTypeOK
  <2> QED
    BY <1>6, <2>1 DEF SessionAim, SessionLift, TypeOK, SessionTypeOK, LinkTypeOK,
                      PanelTypeOK, linkVars, GoTo, ThreadState, armVars
<1>7. CASE SessionClose(s)
  <2>1. LinkTypeOK'
    BY <1>0, <1>7, SocketType DEF SessionClose, TypeOK
  <2> QED
    BY <1>7, <2>1 DEF SessionClose, TypeOK, SessionTypeOK, PanelTypeOK, panelVars, armVars,
                      GoTo, ThreadState
<1> QED
  BY <1>1, <1>2, <1>3, <1>4, <1>5, <1>6, <1>7 DEF SessionStep

\* Every step of the tablets, the console and the sessions keeps the types.
LEMMA TypeNext == TypeOK /\ [Next]_vars => TypeOK'
<1> SUFFICES ASSUME TypeOK, [Next]_vars PROVE TypeOK'
  OBVIOUS
<1>1. ASSUME NEW c \in Clients, Tablet(c) PROVE TypeOK'
  <2>1. LinkTypeOK'
    BY <1>1, SendType DEF Tablet, TypeOK
  <2> QED
    BY <1>1, <2>1 DEF Tablet, TypeOK, PanelTypeOK, SessionTypeOK, panelVars, armVars, sessionVars
<1>2. CASE Network
  <2>1. LinkTypeOK'
    BY <1>2, NetworkType DEF Network, TypeOK
  <2> QED
    BY <1>2, <2>1 DEF Network, TypeOK, PanelTypeOK, SessionTypeOK, panelVars, armVars, sessionVars
<1>3. ASSUME NEW s \in Sessions, BeginSession(s) PROVE TypeOK'
  <2>1. [shown EXCEPT !["hand"] = 0] \in Position
    BY HandZeroType DEF TypeOK, PanelTypeOK
  <2>2. SessionTypeOK'
    BY <1>3, <2>1 DEF BeginSession, Construct, GoTo, TypeOK, PanelTypeOK,
                      SessionTypeOK, ThreadState
  <2> QED
    BY <1>3, <2>2 DEF BeginSession, TypeOK, LinkTypeOK, PanelTypeOK, linkVars, panelVars, armVars
<1>4. ASSUME NEW s \in Sessions, Thread(s) PROVE TypeOK'
  BY <1>4, ThreadType DEF Thread, TypeOK
<1>5. CASE EndSession
  BY <1>5 DEF EndSession, Exit, TypeOK, SessionTypeOK, LinkTypeOK, PanelTypeOK,
              linkVars, panelVars, armVars
<1>6. CASE AnimationFrame
  <2>1. PanelTypeOK'
    BY <1>6, DrawType DEF AnimationFrame, TypeOK
  <2> QED
    BY <1>6, <2>1 DEF AnimationFrame, TypeOK, LinkTypeOK, SessionTypeOK,
                      linkVars, sessionVars
<1>7. CASE PanelInput
  <2>1. PanelTypeOK'
    BY <1>7, PanelInputType DEF TypeOK
  <2> QED
    BY <1>7, <2>1 DEF PanelInput, TypeOK, LinkTypeOK, SessionTypeOK,
                      linkVars, sessionVars
<1>8. CASE UNCHANGED vars
  BY <1>8 DEF vars, TypeOK, LinkTypeOK, PanelTypeOK, SessionTypeOK,
              linkVars, panelVars, armVars, sessionVars
<1> QED
  BY <1>1, <1>2, <1>3, <1>4, <1>5, <1>6, <1>7, <1>8 DEF Next

\* Every variable keeps its type, whatever the tablets send and however many
\* sessions and tablets there are.
THEOREM TypeCorrect == Spec => []TypeOK
<1> QED
  BY TypeInit, TypeNext, PTL DEF Spec

-----------------------------------------------------------------------------
(***************************************************************************)
(* The inductive invariant.  SingleDriver alone is not inductive: that a   *)
(* session which receives a request owns the endpoint follows from where   *)
(* requests are delivered (HandedToPort), and that the owner stays the     *)
(* owner from the socket being closed by its own thread only (PortHolder). *)
(***************************************************************************)

\* At the start no thread exists and the endpoint is free.
LEMMA DriverInit == Init => DriverInv
<1> SUFFICES ASSUME Init PROVE DriverInv
  OBVIOUS
<1>1. TypeOK
  BY TypeInit
<1> QED
  BY <1>1 DEF Init, LinkInit, SessionInit, NoRequest, DriverInv, PortHolder,
     HandedToPort, RequestHeldOnce, LateFrameSpent, Busy

\* Steps that neither move a thread on nor touch the link.
LEMMA DriverFrame ==
  ASSUME DriverInv, UNCHANGED <<linkVars, sessionVars>>
  PROVE  PortHolder' /\ HandedToPort' /\ RequestHeldOnce' /\ LateFrameSpent'
  BY DEF DriverInv, PortHolder, HandedToPort, RequestHeldOnce, LateFrameSpent,
         linkVars, sessionVars

\* Requests and replies under way.
LEMMA DriverLink ==
  ASSUME DriverInv, NEW c \in Clients,
         (\E m \in Messages : Send(c, m)) \/ Deliver(c) \/ Receive(c),
         UNCHANGED sessionVars
  PROVE  PortHolder' /\ HandedToPort' /\ RequestHeldOnce' /\ LateFrameSpent'
<1>1. req \in [Clients -> Request]
  BY DEF DriverInv, TypeOK, LinkTypeOK
<1>2. port' = port
  BY DEF Send, Deliver, Receive
<1>3. PortHolder' /\ LateFrameSpent'
  BY <1>2 DEF DriverInv, PortHolder, LateFrameSpent, sessionVars
<1>4. CASE \E m \in Messages : Send(c, m)
  BY <1>1, <1>2, <1>3, <1>4
  DEF DriverInv, HandedToPort, RequestHeldOnce, sessionVars, Send, Request
<1>5. CASE Deliver(c)
  BY <1>1, <1>2, <1>3, <1>5
  DEF DriverInv, HandedToPort, RequestHeldOnce, sessionVars, Deliver, Request
<1>6. CASE Receive(c)
  BY <1>1, <1>2, <1>3, <1>6
  DEF DriverInv, HandedToPort, RequestHeldOnce, sessionVars, Receive, NoRequest
<1> QED
  BY <1>4, <1>5, <1>6

\* The console's calls: begin() and exit().
LEMMA DriverButton ==
  ASSUME DriverInv, EndSession \/ \E s \in Sessions : BeginSession(s)
  PROVE  PortHolder' /\ HandedToPort' /\ RequestHeldOnce' /\ LateFrameSpent'
<1>1. pc \in [Sessions -> ThreadState]
  BY DEF DriverInv, TypeOK, SessionTypeOK
<1>2. CASE EndSession
  BY <1>2 DEF EndSession, Exit, DriverInv, PortHolder, HandedToPort,
              RequestHeldOnce, LateFrameSpent, linkVars
<1>3. ASSUME NEW s \in Sessions, BeginSession(s)
      PROVE  PortHolder' /\ HandedToPort' /\ RequestHeldOnce' /\ LateFrameSpent'
  <2>1. pc[s] = "unborn" /\ pc' = [pc EXCEPT ![s] = "bind"]
    BY <1>3 DEF BeginSession, Construct, GoTo
  <2>2. exitFlag' = FALSE /\ port' = port /\ req' = req
    BY <1>3 DEF BeginSession, Construct, linkVars
  <2> QED
    BY <1>1, <2>1, <2>2 DEF DriverInv, PortHolder, HandedToPort,
       RequestHeldOnce, LateFrameSpent, Busy
<1> QED
  BY <1>2, <1>3

\* A session binds its socket: the endpoint changes hands only if it was free,
\* and then no session owns it and no request was handed to anyone.
LEMMA DriverBind ==
  ASSUME DriverInv, NEW s \in Sessions, SessionBind(s)
  PROVE  PortHolder' /\ HandedToPort' /\ RequestHeldOnce' /\ LateFrameSpent'
<1>1. /\ pc \in [Sessions -> ThreadState]
      /\ s # NoServer /\ NoServer \notin Sessions
  BY SessionsAssumption, ServersAssumption DEF DriverInv, TypeOK, SessionTypeOK
<1>2. /\ pc[s] = "bind" /\ pc' = [pc EXCEPT ![s] = "recv"]
      /\ req' = req /\ exitFlag' = exitFlag /\ lateMoves' = lateMoves
      /\ port' = IF port = NoServer THEN s ELSE port
  BY DEF SessionBind, Bind, GoTo
<1>3. PortHolder'
  BY <1>1, <1>2 DEF DriverInv, PortHolder, Busy
<1>4. HandedToPort' /\ RequestHeldOnce'
  BY <1>1, <1>2 DEF DriverInv, HandedToPort, RequestHeldOnce
<1>5. LateFrameSpent'
  BY <1>1, <1>2 DEF DriverInv, LateFrameSpent
<1> QED
  BY <1>3, <1>4, <1>5

\* A session receives: it owns the endpoint, because the request is there.
LEMMA DriverRecv ==
  ASSUME DriverInv, NEW s \in Sessions, SessionRecv(s)
  PROVE  PortHolder' /\ HandedToPort' /\ RequestHeldOnce' /\ LateFrameSpent'
<1>1. /\ pc \in [Sessions -> ThreadState] /\ req \in [Clients -> Request]
  BY DEF DriverInv, TypeOK, LinkTypeOK, SessionTypeOK
<1>2. PICK c \in Clients : Take(s, c)
  BY DEF SessionRecv
<1>3. /\ pc[s] = "recv" /\ pc' = [pc EXCEPT ![s] = "check"]
      /\ exitFlag' = exitFlag /\ lateMoves' = lateMoves /\ port' = port
      /\ req[c].st = "inbox" /\ req[c].at = s
      /\ req' = [req EXCEPT ![c].st = "taken"]
  BY <1>2 DEF SessionRecv, Take, HasRequest, GoTo
<1>4. port = s
  BY <1>3 DEF DriverInv, HandedToPort
<1>5. \A d \in Clients : req[d].st # "taken"
  BY <1>3, <1>4 DEF DriverInv, RequestHeldOnce
<1>6. PortHolder' /\ LateFrameSpent'
  BY <1>1, <1>3, <1>4 DEF DriverInv, PortHolder, LateFrameSpent
<1>7. HandedToPort' /\ RequestHeldOnce'
  BY <1>1, <1>3, <1>4, <1>5 DEF DriverInv, HandedToPort, RequestHeldOnce, Request
<1> QED
  BY <1>6, <1>7

\* The test of the flag: with the flag up no session gets past it.
LEMMA DriverCheck ==
  ASSUME DriverInv, NEW s \in Sessions, SessionCheck(s)
  PROVE  PortHolder' /\ HandedToPort' /\ RequestHeldOnce' /\ LateFrameSpent'
<1>1. pc \in [Sessions -> ThreadState]
  BY DEF DriverInv, TypeOK, SessionTypeOK
<1>2. /\ pc[s] = "check"
      /\ pc' = [pc EXCEPT ![s] = IF exitFlag THEN "close" ELSE "reply"]
      /\ UNCHANGED <<exitFlag, lateMoves, port, req>>
  BY DEF SessionCheck, AfterCheck, GoTo, linkVars
<1> QED
  BY <1>1, <1>2
  DEF DriverInv, PortHolder, HandedToPort, RequestHeldOnce, LateFrameSpent, Busy

\* The reply settles the only request the session has taken.
LEMMA DriverReply ==
  ASSUME DriverInv, NEW s \in Sessions, SessionReply(s)
  PROVE  PortHolder' /\ HandedToPort' /\ RequestHeldOnce' /\ LateFrameSpent'
<1>1. /\ pc \in [Sessions -> ThreadState] /\ req \in [Clients -> Request]
  BY DEF DriverInv, TypeOK, LinkTypeOK, SessionTypeOK
<1>2. /\ pc[s] = "reply" /\ pc' = [pc EXCEPT ![s] = "move"]
      /\ exitFlag' = exitFlag /\ lateMoves' = lateMoves /\ port' = port
      /\ Reply(s)
  BY DEF SessionReply, Reply, GoTo
<1>3. port = s
  BY <1>2 DEF DriverInv, PortHolder, Busy
<1>4. PortHolder' /\ LateFrameSpent'
  BY <1>1, <1>2, <1>3 DEF DriverInv, PortHolder, LateFrameSpent
<1>5. \A c \in Clients : req'[c].st # "taken" /\
        (req'[c].st = "inbox" => req'[c] = req[c])
  BY <1>1, <1>2, <1>3 DEF DriverInv, HandedToPort, Reply, Request
<1>6. HandedToPort' /\ RequestHeldOnce'
  BY <1>2, <1>5 DEF DriverInv, HandedToPort, RequestHeldOnce
<1> QED
  BY <1>4, <1>6

\* The move: with the flag up it is the first since exit(), and no other
\* session is as far.
LEMMA DriverMove ==
  ASSUME DriverInv, NEW s \in Sessions, SessionMove(s)
  PROVE  PortHolder' /\ HandedToPort' /\ RequestHeldOnce' /\ LateFrameSpent'
<1>1. pc \in [Sessions -> ThreadState] /\ lateMoves \in Nat
  BY DEF DriverInv, TypeOK, SessionTypeOK
<1>2. /\ pc[s] = "move"
      /\ UNCHANGED <<exitFlag, port, req>>
      /\ \/ /\ pc' = [pc EXCEPT ![s] = "aim"]
            /\ lateMoves' = IF exitFlag THEN lateMoves + 1 ELSE lateMoves
         \/ /\ pc' = [pc EXCEPT ![s] = "close"]
            /\ lateMoves' = lateMoves
  BY DEF SessionMove, GoTo, linkVars
<1>3. \A t \in Sessions : pc[t] \in {"reply", "move"} => t = s
  BY <1>2 DEF DriverInv, PortHolder, Busy
<1>4. PortHolder' /\ HandedToPort' /\ RequestHeldOnce'
  BY <1>1, <1>2 DEF DriverInv, PortHolder, HandedToPort, RequestHeldOnce, Busy
<1>5. LateFrameSpent'
  BY <1>1, <1>2, <1>3 DEF DriverInv, LateFrameSpent
<1> QED
  BY <1>4, <1>5

\* The two setValue calls touch neither the link nor the flag; the thread that
\* makes them stays the owner of the endpoint.
LEMMA DriverSliders ==
  ASSUME DriverInv, NEW s \in Sessions, SessionAim(s) \/ SessionLift(s)
  PROVE  PortHolder' /\ HandedToPort' /\ RequestHeldOnce' /\ LateFrameSpent'
<1>1. pc \in [Sessions -> ThreadState]
  BY DEF DriverInv, TypeOK, SessionTypeOK
<1>2. /\ pc[s] \in {"aim", "lift"}
      /\ \E l \in {"lift", "recv"} : pc' = [pc EXCEPT ![s] = l]
      /\ UNCHANGED <<exitFlag, lateMoves, port, req>>
  BY DEF SessionAim, SessionLift, GoTo, linkVars
<1> QED
  BY <1>1, <1>2
  DEF DriverInv, PortHolder, HandedToPort, RequestHeldOnce, LateFrameSpent, Busy

\* The owner of the endpoint closes it: every request handed to it is lost.
LEMMA DriverClose ==
  ASSUME DriverInv, NEW s \in Sessions, SessionClose(s)
  PROVE  PortHolder' /\ HandedToPort' /\ RequestHeldOnce' /\ LateFrameSpent'
<1>1. /\ pc \in [Sessions -> ThreadState] /\ req \in [Clients -> Request]
  BY DEF DriverInv, TypeOK, LinkTypeOK, SessionTypeOK
<1>2. /\ pc[s] = "close" /\ pc' = [pc EXCEPT ![s] = "ended"]
      /\ exitFlag' = exitFlag /\ lateMoves' = lateMoves
      /\ CloseSocket(s)
  BY DEF SessionClose, CloseSocket, GoTo
<1>3. port = s
  BY <1>2 DEF DriverInv, PortHolder, Busy
<1>4. \A c \in Clients : req'[c].st \notin {"inbox", "taken"}
  BY <1>1, <1>2, <1>3 DEF DriverInv, HandedToPort, CloseSocket, Request
<1>5. PortHolder' /\ LateFrameSpent'
  BY <1>1, <1>2, <1>3 DEF DriverInv, PortHolder, LateFrameSpent, Busy
<1>6. HandedToPort' /\ RequestHeldOnce'
  BY <1>4 DEF HandedToPort, RequestHeldOnce
<1> QED
  BY <1>5, <1>6

\* Every step keeps DriverInv: the cases above, one for each kind of step.
LEMMA DriverNext == DriverInv /\ [Next]_vars => DriverInv'
<1> SUFFICES ASSUME DriverInv, [Next]_vars
             PROVE  PortHolder' /\ HandedToPort' /\ RequestHeldOnce' /\ LateFrameSpent'
  BY TypeNext DEF DriverInv
<1>1. CASE \E c \in Clients : Tablet(c)
  BY <1>1, DriverLink DEF Tablet
<1>2. CASE Network
  BY <1>2, DriverLink DEF Network
<1>3. CASE EndSession \/ \E s \in Sessions : BeginSession(s)
  BY <1>3, DriverButton
<1>4. CASE \E s \in Sessions : Thread(s)
  <2>1. PICK s \in Sessions : SessionStep(s)
    BY <1>4 DEF Thread
  <2> QED
    BY <2>1, DriverBind, DriverRecv, DriverCheck, DriverReply, DriverMove,
       DriverSliders, DriverClose DEF SessionStep
<1>5. CASE AnimationFrame \/ PanelInput \/ UNCHANGED vars
  <2>1. UNCHANGED <<linkVars, sessionVars>>
    BY <1>5 DEF AnimationFrame, PanelInput, vars
  <2> QED
    BY <2>1, DriverFrame
<1> QED
  BY <1>1, <1>2, <1>3, <1>4, <1>5 DEF Next

\* A thread with work in hand owns the endpoint, requests are handed to its owner
\* only, and the one late frame is used up: the invariant behind the theorems
\* that follow.
THEOREM DriverInvariant == Spec => []DriverInv
<1> QED
  BY DriverInit, DriverNext, PTL DEF Spec

\* However many sessions there are, and whichever of them were withdrawn and
\* revived, the one that works on a request owns the endpoint: two sessions
\* never work on requests at the same time.
THEOREM OneDriver == Spec => []SingleDriver
<1>1. DriverInv => SingleDriver
  BY DEF DriverInv, PortHolder, SingleDriver
<1> QED
  BY <1>1, DriverInvariant, PTL

\* A request in the console's hands is in those of the endpoint's owner, and
\* at most one request is being worked on.
THEOREM HeldOnce == Spec => []RequestHeldOnce
<1>1. DriverInv => RequestHeldOnce
  BY DEF DriverInv
<1> QED
  BY <1>1, DriverInvariant, PTL

\* After exit() at most one frame of all sessions together is sent to the arm
\* before the next begin().
THEOREM AtMostOneLateMove == Spec => []LateMoveBound
<1>1. DriverInv => LateMoveBound
  BY DEF DriverInv, LateFrameSpent, LateMoveBound
<1> QED
  BY <1>1, DriverInvariant, PTL

-----------------------------------------------------------------------------
(* RemoteControl implements ArmLease. *)

\* At the start nobody holds the lease and nothing was sent.
LEMMA LeaseInit == Init => Lease!Init
<1> SUFFICES ASSUME Init PROVE Lease!Init
  OBVIOUS
<1>1. arm \in Frame
  BY TypeInit DEF TypeOK, PanelTypeOK
<1> QED
  BY <1>1 DEF Init, LinkInit, PanelInit, SessionInit, Lease!Init

\* Steps of a session's thread.
LEMMA LeaseThread ==
  ASSUME DriverInv, TypeOK', NEW s \in Sessions, SessionStep(s)
  PROVE  [Lease!Next]_(Lease!leaseVars)
<1>0. /\ s # NoServer /\ s # Nobody /\ arm' \in Frame
      /\ lateMoves \in Nat /\ TypeOK
  BY SessionsAssumption, ServersAssumption, SendersAssumption
  DEF DriverInv, TypeOK, SessionTypeOK, PanelTypeOK
<1>1. CASE SessionBind(s)
  <2>1. CASE port = NoServer
    <3>1. Lease!Acquire(s)
      BY <1>0, <1>1, <2>1 DEF SessionBind, Bind, panelVars, armVars, Lease!Acquire
    <3> QED
      BY <3>1 DEF Lease!Next
  <2>2. CASE port # NoServer
    BY <1>1, <2>2 DEF SessionBind, Bind, panelVars, armVars, Lease!leaseVars
  <2> QED
    BY <2>1, <2>2
<1>2. CASE SessionRecv(s) \/ SessionCheck(s) \/ SessionReply(s)
  BY <1>2 DEF SessionRecv, SessionCheck, SessionReply, Take, Reply, panelVars, armVars,
              linkVars, Lease!leaseVars
<1>3. CASE SessionMove(s)
  <2>1. port = s
    BY <1>3 DEF SessionMove, DriverInv, PortHolder, Busy
  <2>2. CASE serialUp
    <3>1. exitFlag => lateMoves = 0
      BY <1>3 DEF SessionMove, DriverInv, LateFrameSpent
    <3>2. /\ arm'.by = s \/ arm' = arm
          /\ port' = port /\ exitFlag' = exitFlag
      BY <1>3, <2>2 DEF SessionMove, SendPos, linkVars
    <3>3. lateMoves' = IF exitFlag THEN lateMoves + 1 ELSE lateMoves
      BY <1>3, <2>2 DEF SessionMove
    <3>4. ~exitFlag \/ ~(lateMoves > 0)
      BY <3>1
    <3>5. (lateMoves' > 0) = (IF ~exitFlag THEN lateMoves > 0 ELSE TRUE)
      <4>1. CASE exitFlag
        <5>1. lateMoves' = 1
          BY <3>1, <3>3, <4>1
        <5>2. lateMoves' > 0
          BY <5>1
        <5> QED
          BY <4>1, <5>2, Zenon
      <4>2. CASE ~exitFlag
        BY <3>3, <4>2, Zenon
      <4> QED
        BY <4>1, <4>2
    <3>6. Lease!TabletMove(s)
      BY <1>0, <2>1, <3>2, <3>4, <3>5, Zenon DEF Lease!TabletMove
    <3> QED
      BY <3>6 DEF Lease!Next
  <2>3. CASE ~serialUp
    BY <1>3, <2>3 DEF SessionMove, linkVars, armVars, Lease!leaseVars
  <2> QED
    BY <2>2, <2>3
<1>4. CASE SessionAim(s) \/ SessionLift(s)
  BY <1>4 DEF SessionAim, SessionLift, linkVars, armVars, Lease!leaseVars
<1>5. CASE SessionClose(s)
  <2>1. port = s
    BY <1>5 DEF SessionClose, DriverInv, PortHolder
  <2>2. Lease!ReleaseLease
    BY <1>0, <1>5, <2>1 DEF SessionClose, CloseSocket, panelVars, armVars, Lease!ReleaseLease
  <2> QED
    BY <2>2 DEF Lease!Next
<1> QED
  BY <1>1, <1>2, <1>3, <1>4, <1>5 DEF SessionStep

\* Every step is a step of the lease, or leaves it as it is: begin() and exit()
\* open and revoke it, bind and close acquire and release it, the rest moves
\* the arm or nothing.
LEMMA LeaseNext == DriverInv /\ TypeOK' /\ [Next]_vars => [Lease!Next]_(Lease!leaseVars)
<1> SUFFICES ASSUME DriverInv, TypeOK', [Next]_vars
             PROVE  [Lease!Next]_(Lease!leaseVars)
  OBVIOUS
<1>1. ASSUME NEW c \in Clients, Tablet(c) PROVE [Lease!Next]_(Lease!leaseVars)
  BY <1>1 DEF Tablet, Send, panelVars, armVars, sessionVars, Lease!leaseVars
<1>2. CASE Network
  BY <1>2 DEF Network, Deliver, Receive, panelVars, armVars, sessionVars, Lease!leaseVars
<1>3. ASSUME NEW s \in Sessions, BeginSession(s)
      PROVE  [Lease!Next]_(Lease!leaseVars)
  <2>1. Lease!Open
    BY <1>3 DEF BeginSession, Construct, linkVars, panelVars, armVars, Lease!Open
  <2> QED
    BY <2>1 DEF Lease!Next
<1>4. ASSUME NEW s \in Sessions, Thread(s) PROVE [Lease!Next]_(Lease!leaseVars)
  BY <1>4, LeaseThread DEF Thread
<1>5. CASE EndSession
  <2>1. Lease!Revoke
    BY <1>5 DEF EndSession, Exit, linkVars, panelVars, armVars, Lease!Revoke
  <2> QED
    BY <2>1 DEF Lease!Next
<1>6. CASE AnimationFrame
  <2>1. arm' \in Frame
    BY DEF TypeOK, PanelTypeOK
  <2>2. CASE arm'.by = Console
    <3>1. Lease!ConsoleMove
      BY <1>6, <2>1, <2>2 DEF AnimationFrame, linkVars, sessionVars, Lease!ConsoleMove
    <3> QED
      BY <3>1 DEF Lease!Next
  <2>3. CASE arm' = arm
    BY <1>6, <2>3 DEF AnimationFrame, linkVars, sessionVars, Lease!leaseVars
  <2>4. \/ arm' = [at |-> shown', ctl |-> suctionCup, by |-> Console]
        \/ arm' = arm
    BY <1>6, Zenon DEF AnimationFrame, Draw, SendPos, armVars
  <2> QED
    BY <2>2, <2>3, <2>4
<1>7. CASE PanelInput
  BY <1>7 DEF PanelInput, MoveControl, ToggleSuction, linkVars, sessionVars, armVars,
              Lease!leaseVars
<1>8. CASE UNCHANGED vars
  BY <1>8 DEF vars, linkVars, panelVars, armVars, sessionVars, Lease!leaseVars
<1> QED
  BY <1>1, <1>2, <1>3, <1>4, <1>5, <1>6, <1>7, <1>8 DEF Next

\* The sockets, threads and flags implement the lease: only the endpoint's
\* owner moves the arm for a tablet, and after exit() at most once.
THEOREM ImplementsLease == Spec => LeaseKept
<1>1. Spec => Lease!Spec
  BY LeaseInit, LeaseNext, DriverInvariant, TypeCorrect, PTL DEF Spec, Lease!Spec
<1> QED
  BY <1>1 DEF LeaseKept
=============================================================================
