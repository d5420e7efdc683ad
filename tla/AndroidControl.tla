--------------------------- MODULE AndroidControl --------------------------
(***************************************************************************)
(* The class AndroidControl: every use of the "Android control" button     *)
(* constructs one session, a thread with a REP socket of its own that      *)
(* turns the tablet's requests into positions of the arm.  All sessions    *)
(* share the static exitFlag, and it is the only thing exit() changes.     *)
(*                                                                         *)
(* The thread's steps are separate actions wherever another thread can     *)
(* see or change something in between: bind, recv, the test of exitFlag,   *)
(* the reply, sendPos, and the two setValue calls on the sliders.          *)
(***************************************************************************)
EXTENDS ZmqLink, ArmPanel

ASSUME SessionsAssumption == Sessions \subseteq Servers

VARIABLES
    exitFlag,   \* AndroidControl.exitFlag
    pc,         \* where the thread of each session is
    loc,        \* the session's str, rot, hei (the hand angle it sends is 0)
    grip,       \* the session's suctionCup, copied when it was constructed
    revoked,    \* history: sessions that were alive at some call of exit()
    lateMoves   \* history: frames sent by sessions since the last exit()

sessionVars == <<exitFlag, pc, loc, grip, revoked, lateMoves>>

ThreadState == {"unborn", "bind", "recv", "check", "reply", "move",
                "aim", "lift", "close", "ended"}

\* A session that received a request and is not done with it.
Busy == {"check", "reply", "move", "aim", "lift"}

Alive(s) == pc[s] \notin {"unborn", "ended"}

SessionTypeOK ==
    /\ exitFlag \in BOOLEAN
    /\ pc \in [Sessions -> ThreadState]
    /\ loc \in [Sessions -> Position]
    /\ grip \in [Sessions -> {Catch, Release}]
    /\ revoked \subseteq Sessions
    /\ lateMoves \in Nat

SessionInit ==
    /\ exitFlag = FALSE
    /\ pc = [s \in Sessions |-> "unborn"]
    /\ loc = [s \in Sessions |-> StartValues]
    /\ grip = [s \in Sessions |-> Release]
    /\ revoked = {}
    /\ lateMoves = 0

GoTo(s, l) == pc' = [pc EXCEPT ![s] = l]

-----------------------------------------------------------------------------
(* The two calls of the console's thread. *)

\* begin: the constructor clears the flag that all sessions share.
Construct(s, p, ctl) ==
    /\ pc[s] = "unborn"
    /\ exitFlag' = FALSE
    /\ loc' = [loc EXCEPT ![s] = [p EXCEPT !["hand"] = 0]]
    /\ grip' = [grip EXCEPT ![s] = ctl]
    /\ GoTo(s, "bind")
    /\ UNCHANGED <<revoked, lateMoves>>

Exit ==
    /\ exitFlag' = TRUE
    /\ revoked' = revoked \cup {s \in Sessions : Alive(s)}
    /\ lateMoves' = 0
    /\ UNCHANGED <<pc, loc, grip>>

-----------------------------------------------------------------------------
(* RunThread.run *)

SessionBind(s) ==
    /\ pc[s] = "bind"
    /\ Bind(s)
    /\ GoTo(s, "recv")
    /\ UNCHANGED <<exitFlag, loc, grip, revoked, lateMoves, panelVars>>

\* Mutant of SessionRecv: one static socket for all sessions.
RecvShared(s) ==
    /\ pc[s] = "recv"
    /\ \E c \in Clients :
         /\ req[c].st = "inbox"
         /\ req' = [req EXCEPT ![c].st = "taken", ![c].at = s]
    /\ GoTo(s, "check")
    /\ UNCHANGED <<port, sent, exitFlag, loc, grip, revoked, lateMoves, panelVars>>

\* recv blocks until the socket has a request; an unbound one never does.
SessionRecv(s) ==
    /\ pc[s] = "recv"
    /\ \E c \in Clients : Take(s, c)
    /\ GoTo(s, "check")
    /\ UNCHANGED <<exitFlag, loc, grip, revoked, lateMoves, panelVars>>

ShiftAxis == [l |-> "rot", r |-> "rot", f |-> "str",
              b |-> "str", u |-> "hei", d |-> "hei"]
ShiftBy == [l |-> -10, r |-> 10, f |-> 30, b |-> -30, u |-> 30, d |-> -30]

\* Any other text, "Connected" among them, leaves the position as it is.
Moved(p, m) ==
    IF m \in DOMAIN ShiftAxis
      THEN [p EXCEPT ![ShiftAxis[m]] = @ + ShiftBy[m]] ELSE p

\* Mutants of AfterCheck: the flag is not tested; or the loop goes on without
\* an answer when it is up.
CheckForgotten == "reply"
CheckContinues == IF exitFlag THEN "recv" ELSE "reply"

\* With exitFlag up the thread leaves its loop, the request unanswered.
AfterCheck == IF exitFlag THEN "close" ELSE "reply"

SessionCheck(s) ==
    /\ pc[s] = "check"
    /\ GoTo(s, AfterCheck)
    /\ IF AfterCheck = "reply"
         THEN \E c \in Clients :
                /\ req[c].st = "taken" /\ req[c].at = s
                /\ loc' = [loc EXCEPT ![s] = Moved(loc[s], req[c].msg)]
         ELSE UNCHANGED loc
    /\ UNCHANGED <<exitFlag, grip, revoked, lateMoves, linkVars, panelVars>>

\* The confirmation is sent before the arm is moved.
SessionReply(s) ==
    /\ pc[s] = "reply"
    /\ Reply(s)
    /\ GoTo(s, "move")
    /\ UNCHANGED <<exitFlag, loc, grip, revoked, lateMoves, panelVars>>

\* sendPos; with serialOut null it throws and the catch ends the loop.
SessionMove(s) ==
    /\ pc[s] = "move"
    /\ IF serialUp
         THEN /\ SendPos(loc[s], grip[s], s)
              /\ lateMoves' = IF exitFlag THEN lateMoves + 1 ELSE lateMoves
              /\ GoTo(s, "aim")
         ELSE GoTo(s, "close") /\ UNCHANGED <<armVars, lateMoves>>
    /\ UNCHANGED <<exitFlag, loc, grip, revoked, linkVars,
                   shown, target, updateEn, suctionCup, serialUp, awake, inputs,
                   userSet>>

\* Mutant of AimedAxes: only the stretch is passed on.
AimStretchOnly == {"str"}

AimedAxes == {"str", "rot"}

\* slider2d2.setValueXY
SessionAim(s) ==
    /\ pc[s] = "aim"
    /\ SetValue(AimedAxes, loc[s])
    /\ userSet' = userSet \ AimedAxes
    /\ GoTo(s, "lift")
    /\ UNCHANGED <<exitFlag, loc, grip, revoked, lateMoves, linkVars,
                   armVars, shown, updateEn, suctionCup, serialUp, awake, inputs>>

\* slider1.setValue
SessionLift(s) ==
    /\ pc[s] = "lift"
    /\ SetValue({"hei"}, loc[s])
    /\ userSet' = userSet \ {"hei"}
    /\ GoTo(s, "recv")
    /\ UNCHANGED <<exitFlag, loc, grip, revoked, lateMoves, linkVars,
                   armVars, shown, updateEn, suctionCup, serialUp, awake, inputs>>

\* Mutant of SessionClose: the thread ends with its socket open.
CloseForgotten(s) ==
    /\ pc[s] = "close"
    /\ GoTo(s, "ended")
    /\ UNCHANGED <<exitFlag, loc, grip, revoked, lateMoves, linkVars, panelVars>>

SessionClose(s) ==
    /\ pc[s] = "close"
    /\ CloseSocket(s)
    /\ GoTo(s, "ended")
    /\ UNCHANGED <<exitFlag, loc, grip, revoked, lateMoves, panelVars>>

SessionStep(s) ==
    \/ SessionBind(s)
    \/ SessionRecv(s)
    \/ SessionCheck(s)
    \/ SessionReply(s)
    \/ SessionMove(s)
    \/ SessionAim(s)
    \/ SessionLift(s)
    \/ SessionClose(s)
=============================================================================
