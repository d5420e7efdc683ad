----------------------------- MODULE PanelProofs ----------------------------
(***************************************************************************)
(* Proofs about what the panel shows: for any sessions, tablets, positions *)
(* and uses of the controls.                                               *)
(***************************************************************************)
EXTENDS RemoteControlProofs

-----------------------------------------------------------------------------
(***************************************************************************)
(* The inductive invariant.  Where the arm is and what the controls aim at *)
(* is told apart by who sent the arm's last frame.  While the last frame   *)
(* sent is not written, the panel is ahead of the arm, and nothing is said *)
(* of the two until the next one is.                                       *)
(***************************************************************************)

\* Without a serial port nothing is ever sent.
NoFrameWithoutPort == ~serialUp => arm.by = Nobody /\ ~writeFailed

\* What draw() sent is what is still shown: showing something else sends it.
ConsoleShows == ~writeFailed /\ arm.by = Console => arm.at = shown

\* Between its frame and its last setValue a session is the last sender, or
\* draw() was, and the session's position is where it sent the arm.
MoveUnderWay ==
    \A s \in Sessions : pc[s] \in {"aim", "lift"} =>
        writeFailed \/ arm.by = Console \/ (arm.by = s /\ arm.at = loc[s])

\* The axes whose control the session s has not yet set for its move.
YetToSet(s) ==
    IF pc[s] = "aim" THEN {"str", "rot", "hei"}
    ELSE IF pc[s] = "lift" THEN {"hei"} ELSE {}

\* After a session's frame the controls aim at where the arm is, as far as
\* the session has set them, the user has not set them again, and the limits
\* allow.
ControlsFollow ==
    \A s \in Sessions : ~writeFailed /\ arm.by = s =>
        \A a \in {"str", "rot", "hei"} \ (YetToSet(s) \cup userSet) :
            target[a] = Clamp(a, arm.at[a])

\* A session sends the byte it was constructed with, and the console its own:
\* a byte it does not send at once it has marked to be sent.
ByteOfSender ==
    /\ \A s \in Sessions : arm.by = s => pc[s] # "unborn" /\ grip[s] = arm.ctl
    /\ ~writeFailed /\ arm.by \notin Sessions => arm.ctl = suctionCup \/ updateEn

PanelInv ==
    /\ NoFrameWithoutPort
    /\ ConsoleShows
    /\ MoveUnderWay
    /\ ControlsFollow
    /\ ByteOfSender

\* At the start nothing was sent, and the valve is open as the console has it.
LEMMA PanelInvInit == Init => PanelInv
<1> SUFFICES ASSUME Init PROVE PanelInv
  OBVIOUS
<1>1. arm.by = Nobody /\ arm.ctl = suctionCup /\ ~writeFailed
  BY DEF Init, PanelInit
<1>2. Nobody # Console /\ Nobody \notin Sessions
  BY SendersAssumption
<1>3. \A s \in Sessions : pc[s] = "unborn"
  BY DEF Init, SessionInit
<1> QED
  BY <1>1, <1>2, <1>3 DEF PanelInv, NoFrameWithoutPort, ConsoleShows,
     MoveUnderWay, ControlsFollow, ByteOfSender

\* Steps that touch neither the panel nor a session.
LEMMA PanelInvFrame ==
  ASSUME PanelInv, UNCHANGED <<panelVars, sessionVars>>
  PROVE  PanelInv'
  BY DEF PanelInv, NoFrameWithoutPort, ConsoleShows, MoveUnderWay, YetToSet,
         ControlsFollow, ByteOfSender, panelVars, armVars, sessionVars

\* A new session has sent nothing; exit() changes nothing of the panel.
LEMMA PanelInvButton ==
  ASSUME DriverInv, PanelInv, EndSession \/ \E s \in Sessions : BeginSession(s)
  PROVE  PanelInv'
<1>1. CASE EndSession
  BY <1>1 DEF EndSession, Exit, panelVars, armVars, PanelInv, NoFrameWithoutPort,
     ConsoleShows, MoveUnderWay, YetToSet, ControlsFollow, ByteOfSender
<1>2. ASSUME NEW s \in Sessions, BeginSession(s) PROVE PanelInv'
  <2>1. /\ pc \in [Sessions -> ThreadState] /\ loc \in [Sessions -> Position]
        /\ grip \in [Sessions -> {Catch, Release}]
    BY DEF DriverInv, TypeOK, SessionTypeOK
  <2>2. /\ pc[s] = "unborn" /\ pc' = [pc EXCEPT ![s] = "bind"]
        /\ grip' = [grip EXCEPT ![s] = suctionCup]
        /\ loc' = [loc EXCEPT ![s] = [shown EXCEPT !["hand"] = 0]]
        /\ UNCHANGED <<arm, writeFailed, shown, target, updateEn, suctionCup, serialUp,
                       userSet>>
    BY <1>2 DEF BeginSession, Construct, GoTo, panelVars, armVars
  <2>3. arm.by # s
    BY <2>2 DEF PanelInv, ByteOfSender
  <2>4. \A t \in Sessions : t # s =>
           pc'[t] = pc[t] /\ grip'[t] = grip[t] /\ loc'[t] = loc[t]
    BY <2>1, <2>2
  <2>5. NoFrameWithoutPort' /\ ConsoleShows' /\ ByteOfSender'
    BY <2>2, <2>3, <2>4 DEF PanelInv, NoFrameWithoutPort, ConsoleShows, ByteOfSender
  <2>6. MoveUnderWay'
    BY <2>1, <2>2, <2>4 DEF PanelInv, MoveUnderWay
  <2>7. ControlsFollow'
    BY <2>2, <2>3, <2>4 DEF PanelInv, ControlsFollow, YetToSet
  <2> QED
    BY <2>5, <2>6, <2>7 DEF PanelInv
<1> QED
  BY <1>1, <1>2

\* The steps of a session that leave the arm and the sliders alone: none of
\* them is between its frame and its last setValue.
LEMMA PanelInvQuiet ==
  ASSUME DriverInv, PanelInv, NEW s \in Sessions,
         \/ SessionBind(s) \/ SessionRecv(s) \/ SessionCheck(s)
         \/ SessionReply(s) \/ SessionClose(s)
  PROVE  PanelInv'
<1>1. pc \in [Sessions -> ThreadState] /\ loc \in [Sessions -> Position]
  BY DEF DriverInv, TypeOK, SessionTypeOK
<1>2. /\ pc[s] \notin {"unborn", "aim", "lift"}
      /\ \E l \in {"recv", "check", "reply", "close", "move", "ended"} :
           pc' = [pc EXCEPT ![s] = l]
      /\ UNCHANGED <<arm, writeFailed, shown, target, updateEn, suctionCup, serialUp,
                     userSet, grip>>
  BY DEF SessionBind, SessionRecv, SessionCheck, AfterCheck, SessionReply,
         SessionClose, GoTo, panelVars, armVars
<1>3. \A t \in Sessions : t # s => loc'[t] = loc[t] /\ pc'[t] = pc[t]
  BY <1>1, <1>2 DEF SessionBind, SessionRecv, SessionCheck, SessionReply, SessionClose
<1>4. pc'[s] \notin {"unborn", "aim", "lift"}
  BY <1>1, <1>2
<1>5. NoFrameWithoutPort' /\ ConsoleShows' /\ ByteOfSender'
  BY <1>2, <1>3, <1>4 DEF PanelInv, NoFrameWithoutPort, ConsoleShows, ByteOfSender
<1>6. MoveUnderWay'
  BY <1>2, <1>3, <1>4 DEF PanelInv, MoveUnderWay
<1>7. \A t \in Sessions : YetToSet(t)' = YetToSet(t)
  BY <1>2, <1>3, <1>4 DEF YetToSet
<1>8. ControlsFollow'
  BY <1>2, <1>7 DEF PanelInv, ControlsFollow
<1> QED
  BY <1>5, <1>6, <1>8 DEF PanelInv

\* A session's frame: no other session is between its frame and its setValues,
\* since the endpoint has one owner.
LEMMA PanelInvMove ==
  ASSUME DriverInv, PanelInv, NEW s \in Sessions, SessionMove(s)
  PROVE  PanelInv'
<1>1. pc \in [Sessions -> ThreadState]
  BY DEF DriverInv, TypeOK, SessionTypeOK
<1>2. /\ pc[s] = "move"
      /\ UNCHANGED <<shown, target, updateEn, suctionCup, serialUp, userSet, loc, grip>>
  BY DEF SessionMove
<1>3. \A t \in Sessions : pc[t] \in {"aim", "lift"} => t = s
  BY <1>2 DEF DriverInv, PortHolder, Busy
<1>4. CASE serialUp
  <2>1. pc' = [pc EXCEPT ![s] = "aim"]
    BY <1>4 DEF SessionMove, GoTo
  <2>2. pc'[s] = "aim" /\ s # Console /\ Console \notin Sessions
    BY <1>1, <2>1, SendersAssumption
  <2>3. CASE arm' = [at |-> loc[s], ctl |-> grip[s], by |-> s] /\ ~writeFailed'
    <3>1. arm'.by = s /\ arm'.at = loc[s] /\ arm'.ctl = grip[s]
      BY <2>3
    <3>2. NoFrameWithoutPort' /\ ConsoleShows' /\ ByteOfSender'
      BY <1>2, <1>4, <2>2, <3>1 DEF NoFrameWithoutPort, ConsoleShows, ByteOfSender
    <3>3. MoveUnderWay'
      BY <1>1, <1>2, <1>3, <2>1, <2>2, <3>1 DEF MoveUnderWay
    <3>4. ControlsFollow'
      BY <2>2, <3>1 DEF ControlsFollow, YetToSet
    <3> QED
      BY <3>2, <3>3, <3>4 DEF PanelInv
  <2>4. CASE arm' = arm /\ writeFailed'
    <3>1. \A t \in Sessions : pc[t] # "unborn" => pc'[t] # "unborn"
      BY <1>1, <2>1
    <3> QED
      BY <1>2, <1>4, <2>4, <3>1 DEF PanelInv, NoFrameWithoutPort, ConsoleShows,
         MoveUnderWay, ControlsFollow, ByteOfSender
  <2>5. \/ arm' = [at |-> loc[s], ctl |-> grip[s], by |-> s] /\ ~writeFailed'
        \/ arm' = arm /\ writeFailed'
    BY <1>4, Zenon DEF SessionMove, SendPos
  <2> QED
    BY <2>3, <2>4, <2>5
<1>5. CASE ~serialUp
  <2>1. pc' = [pc EXCEPT ![s] = "close"] /\ arm' = arm /\ writeFailed' = writeFailed
    BY <1>5 DEF SessionMove, GoTo, armVars
  <2>2. arm.by = Nobody /\ Nobody # Console /\ Nobody \notin Sessions
    BY <1>5, SendersAssumption DEF PanelInv, NoFrameWithoutPort
  <2>3. \A t \in Sessions : pc'[t] \notin {"aim", "lift"}
    BY <1>1, <1>2, <1>3, <2>1
  <2> QED
    BY <1>2, <2>1, <2>2, <2>3 DEF PanelInv, NoFrameWithoutPort, ConsoleShows,
       MoveUnderWay, ControlsFollow, ByteOfSender
<1> QED
  BY <1>4, <1>5

\* The setValue calls of a session: if no frame of draw() came between, they
\* make the controls follow the arm.
LEMMA PanelInvSliders ==
  ASSUME DriverInv, PanelInv, NEW s \in Sessions, SessionAim(s) \/ SessionLift(s)
  PROVE  PanelInv'
<1>1. pc \in [Sessions -> ThreadState]
  BY DEF DriverInv, TypeOK, SessionTypeOK
<1>2. UNCHANGED <<arm, writeFailed, shown, updateEn, suctionCup, serialUp, loc, grip>>
  BY DEF SessionAim, SessionLift, armVars
<1>3. writeFailed \/ arm.by = Console \/ (arm.by = s /\ arm.at = loc[s])
  BY DEF SessionAim, SessionLift, PanelInv, MoveUnderWay
<1>4. Console \notin Sessions
  BY SendersAssumption
<1>5. CASE SessionAim(s)
  <2>1. /\ pc[s] = "aim" /\ pc' = [pc EXCEPT ![s] = "lift"]
        /\ target' = [a \in Axes |-> IF a \in {"str", "rot"} THEN Clamp(a, loc[s][a])
                                                             ELSE target[a]]
        /\ userSet' = userSet \ {"str", "rot"}
    BY <1>5 DEF SessionAim, SetValue, AimedAxes, GoTo
  <2>2. YetToSet(s)' = {"hei"}
    BY <1>1, <2>1 DEF YetToSet
  <2>3. NoFrameWithoutPort' /\ ConsoleShows' /\ ByteOfSender'
    BY <1>1, <1>2, <2>1 DEF PanelInv, NoFrameWithoutPort, ConsoleShows, ByteOfSender
  <2>4. MoveUnderWay'
    BY <1>1, <1>2, <2>1 DEF PanelInv, MoveUnderWay
  <2>5. ControlsFollow'
    BY <1>2, <1>3, <1>4, <2>1, <2>2 DEF ControlsFollow, Axes
  <2> QED
    BY <2>3, <2>4, <2>5 DEF PanelInv
<1>6. CASE SessionLift(s)
  <2>1. /\ pc[s] = "lift" /\ pc' = [pc EXCEPT ![s] = "recv"]
        /\ target' = [a \in Axes |-> IF a \in {"hei"} THEN Clamp(a, loc[s][a])
                                                      ELSE target[a]]
        /\ userSet' = userSet \ {"hei"}
    BY <1>6 DEF SessionLift, SetValue, GoTo
  <2>2. YetToSet(s) = {"hei"} /\ YetToSet(s)' = {}
    BY <1>1, <2>1 DEF YetToSet
  <2>3. NoFrameWithoutPort' /\ ConsoleShows' /\ ByteOfSender'
    BY <1>1, <1>2, <2>1 DEF PanelInv, NoFrameWithoutPort, ConsoleShows, ByteOfSender
  <2>4. MoveUnderWay'
    BY <1>1, <1>2, <2>1 DEF PanelInv, MoveUnderWay
  <2>5. ControlsFollow'
    BY <1>2, <1>3, <1>4, <2>1, <2>2 DEF PanelInv, ControlsFollow, Axes
  <2> QED
    BY <2>3, <2>4, <2>5 DEF PanelInv
<1> QED
  BY <1>5, <1>6

\* A frame of draw(): it sends what it has made the controls show.
LEMMA PanelInvDraw ==
  ASSUME PanelInv, AnimationFrame
  PROVE  PanelInv'
<1>1. /\ UNCHANGED <<target, suctionCup, serialUp, userSet, pc, loc, grip>>
      /\ Draw
  BY DEF AnimationFrame, Draw, sessionVars
<1>2. Console \notin Sessions /\ Nobody \notin Sessions /\ Console # Nobody
  BY SendersAssumption
<1>3. CASE serialUp
  <2>1. CASE arm' = [at |-> shown', ctl |-> suctionCup, by |-> Console] /\ ~writeFailed'
    <3>1. arm'.by = Console /\ arm'.at = shown' /\ arm'.ctl = suctionCup
      BY <2>1
    <3> QED
      BY <1>1, <1>2, <1>3, <3>1 DEF PanelInv, NoFrameWithoutPort, ConsoleShows,
         MoveUnderWay, ControlsFollow, ByteOfSender
  <2>2. CASE arm' = arm /\ writeFailed'
    BY <1>1, <1>3, <2>2 DEF PanelInv, NoFrameWithoutPort, ConsoleShows,
       MoveUnderWay, ControlsFollow, ByteOfSender
  <2>3. \/ arm' = [at |-> shown', ctl |-> suctionCup, by |-> Console] /\ ~writeFailed'
        \/ arm' = arm /\ writeFailed'
    BY <1>1, <1>3, Zenon DEF Draw, SendPos
  <2> QED
    BY <2>1, <2>2, <2>3
<1>4. CASE ~serialUp
  <2>1. arm' = arm /\ writeFailed' = writeFailed /\ arm.by = Nobody
    BY <1>1, <1>4 DEF Draw, PanelInv, NoFrameWithoutPort, armVars
  <2>2. updateEn'
    BY <1>1, <1>4, Zenon DEF Draw
  <2> QED
    BY <1>1, <1>2, <1>4, <2>1, <2>2 DEF PanelInv, NoFrameWithoutPort, ConsoleShows,
       MoveUnderWay, ControlsFollow, ByteOfSender
<1> QED
  BY <1>3, <1>4

\* The user: a control moved is a control the session no longer answers for,
\* and a byte toggled is marked to be sent.
LEMMA PanelInvInput ==
  ASSUME PanelInv, PanelInput
  PROVE  PanelInv'
<1>1. UNCHANGED <<arm, writeFailed, shown, serialUp, pc, loc, grip>>
  BY DEF PanelInput, MoveControl, ToggleSuction, sessionVars, armVars
<1>2. NoFrameWithoutPort' /\ ConsoleShows' /\ MoveUnderWay'
  BY <1>1 DEF PanelInv, NoFrameWithoutPort, ConsoleShows, MoveUnderWay
<1>3. \A t \in Sessions : YetToSet(t)' = YetToSet(t)
  BY <1>1 DEF YetToSet
<1>4. ASSUME NEW A \in Controls, NEW p \in PanelPoints, MoveControl(A, p)
      PROVE  PanelInv'
  <2>1. /\ UNCHANGED <<suctionCup, updateEn>>
        /\ target' = [a \in Axes |-> IF a \in A THEN Clamp(a, p[a]) ELSE target[a]]
        /\ userSet' = userSet \cup A
    BY <1>4 DEF MoveControl, SetValue
  <2>2. ByteOfSender'
    BY <1>1, <2>1 DEF PanelInv, ByteOfSender
  <2>3. ControlsFollow'
    BY <1>1, <1>3, <2>1 DEF PanelInv, ControlsFollow, Axes
  <2> QED
    BY <1>2, <2>2, <2>3 DEF PanelInv
<1>5. CASE ToggleSuction
  <2>1. UNCHANGED <<target, userSet>>
    BY <1>5 DEF ToggleSuction
  <2>2. updateEn'
    BY <1>5, Zenon DEF ToggleSuction
  <2>3. ByteOfSender'
    BY <1>1, <2>2 DEF PanelInv, ByteOfSender
  <2>4. ControlsFollow'
    BY <1>1, <1>3, <2>1 DEF PanelInv, ControlsFollow
  <2> QED
    BY <1>2, <2>3, <2>4 DEF PanelInv
<1> QED
  BY <1>4, <1>5 DEF PanelInput

\* Every step keeps PanelInv: the cases above, one for each kind of step.
LEMMA PanelInvNext == DriverInv /\ PanelInv /\ [Next]_vars => PanelInv'
<1> SUFFICES ASSUME DriverInv, PanelInv, [Next]_vars PROVE PanelInv'
  OBVIOUS
<1>1. CASE (\E c \in Clients : Tablet(c)) \/ Network \/ UNCHANGED vars
  BY <1>1, PanelInvFrame DEF Tablet, Network, vars
<1>2. CASE EndSession \/ \E s \in Sessions : BeginSession(s)
  BY <1>2, PanelInvButton
<1>3. CASE \E s \in Sessions : Thread(s)
  BY <1>3, PanelInvQuiet, PanelInvMove, PanelInvSliders DEF Thread, SessionStep
<1>4. CASE AnimationFrame \/ PanelInput
  BY <1>4, PanelInvDraw, PanelInvInput
<1> QED
  BY <1>1, <1>2, <1>3, <1>4 DEF Next

\* Where the arm is, what is shown, what the controls aim at and which byte was
\* sent go together as PanelInv says: the invariant behind the two theorems
\* that follow.
THEOREM PanelInvariant == Spec => []PanelInv
<1> QED
  BY PanelInvInit, PanelInvNext, DriverInvariant, PTL DEF Spec

\* However frames of sessions, frames of draw(), setValue calls and the user's
\* hands interleave, and whichever frames the serial port refused: at rest,
\* once the last frame was written, the panel shows where the arm is, on every
\* axis that the user has not set back and that is within its limits.
THEOREM PanelIsTrue == Spec => []PanelShowsArm
<1>1. DriverInv /\ PanelInv => PanelShowsArm
  <2> SUFFICES ASSUME DriverInv, PanelInv, AtRest, ~writeFailed, arm.by # Nobody,
                      NEW a \in {"str", "rot", "hei"}
               PROVE  \/ arm.at[a] = shown[a]
                      \/ /\ arm.by \in Sessions
                         /\ a \in userSet \/ arm.at[a] # Clamp(a, arm.at[a])
    BY DEF PanelShowsArm
  <2>1. arm.by \in Sessions \cup {Console}
    BY DEF DriverInv, TypeOK, PanelTypeOK, Frame
  <2>2. CASE arm.by = Console
    BY <2>2 DEF PanelInv, ConsoleShows
  <2>3. CASE arm.by \in Sessions
    <3>1. YetToSet(arm.by) = {}
      BY <2>3 DEF AtRest, YetToSet
    <3>2. a \in userSet \/ target[a] = Clamp(a, arm.at[a])
      BY <2>3, <3>1 DEF PanelInv, ControlsFollow
    <3>3. shown[a] = target[a]
      BY DEF AtRest
    <3> QED
      BY <2>3, <3>2, <3>3
  <2> QED
    BY <2>1, <2>2, <2>3
<1> QED
  BY <1>1, PanelInvariant, DriverInvariant, PTL

\* Whatever order button1, draw() and the sessions' moves come in, a pump in
\* another state than the button has its cause in a session's copy of the
\* byte, in a press not drawn yet, or in a last frame that was not written.
THEOREM GripHasCause == Spec => []GripTraced
<1>1. DriverInv /\ PanelInv => GripTraced
  BY DEF PanelInv, ByteOfSender, GripTraced
<1> QED
  BY <1>1, PanelInvariant, DriverInvariant, PTL
=============================================================================
