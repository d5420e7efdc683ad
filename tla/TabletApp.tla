----------------------------- MODULE TabletApp -----------------------------
(***************************************************************************)
(* The tablet's application: activities (MjpegActivity) with a view each   *)
(* (MjpegView) and the view's thread, the queue of AsyncTasks that they    *)
(* share, and the native picture buffer of the process (ImageProc).        *)
(*                                                                         *)
(* Handlers run on the UI thread, one at a time; stopPlayback waits there  *)
(* for the view's thread (join), so it has two halves.  Android itself is  *)
(* external: it pauses, resumes and destroys activities, creates and       *)
(* destroys surfaces, runs tasks one after the other (the application      *)
(* targets version 15) and hands their results to the UI thread in order.  *)
(***************************************************************************)
EXTENDS Naturals, Sequences

CONSTANTS
    Activities,   \* instances of MjpegActivity, each used once
    NoActivity,
    MaxEvents     \* bound: pauses, button presses and saved settings

ASSUME ActivityAssumption == NoActivity \notin Activities
ASSUME MaxEventsAssumption == MaxEvents \in Nat

VARIABLES
    alive,       \* the process; an exception nobody catches ends it
    ui,          \* the handler that waits in join: which one, of whom
    life,        \* where each activity is in its life cycle
    finishing,   \* finish() was called
    launching,   \* startActivity was called
    suspending,  \* MjpegActivity.suspending
    title,       \* what the title bar says
    mRun,        \* MjpegView.mRun
    thread,      \* MjpegView.thread, and where it is
    mIn,         \* MjpegView.mIn is not null
    vSuspending, \* MjpegView.suspending
    surfaceDone, \* MjpegView.surfaceDone
    queue,       \* tasks of the serial executor, the first is running
    posted,      \* messages to the UI thread
    connecting,  \* DoReads executed whose onPostExecute has not run
    rgb,         \* the native buffer is allocated
    events,      \* for the bound only
    late,        \* history: got a connection while it was not resumed
    freedInUse   \* history: the buffer was freed while a thread was in it

activityVars == <<life, finishing, launching, suspending, title>>
viewVars == <<mRun, thread, mIn, vSuspending, surfaceDone>>
taskVars == <<queue, posted, connecting>>
nativeVars == <<rgb, freedInUse>>
vars == <<alive, ui, activityVars, viewVars, taskVars, nativeVars, events, late>>

(***************************************************************************)
(* new: constructed, not started.  null: the field is null.  loop, read,   *)
(* native: in run, in the stream, in processimage.  stuck: in its loop for *)
(* ever, the picture being truncated (see ImageProc).  ended: returned.    *)
(***************************************************************************)
ThreadState == {"new", "null", "loop", "read", "native", "stuck", "ended"}
Running == {"loop", "read", "native", "stuck"}

Task == [kind : {"read", "message", "restart"}, act : Activities]
Post == [kind : {"connected", "failed", "reply", "restart", "imageerror"},
         act : Activities]

TypeOK ==
    /\ alive \in BOOLEAN
    /\ ui \in [op : {"free", "pause", "surface"}, act : Activities \cup {NoActivity}]
    /\ life \in [Activities -> {"unborn", "resumed", "paused", "destroyed"}]
    /\ finishing \in [Activities -> BOOLEAN]
    /\ launching \in BOOLEAN
    /\ suspending \in [Activities -> BOOLEAN]
    /\ title \in [Activities -> {"connecting", "app_name", "disconnected", "imageerror"}]
    /\ mRun \in [Activities -> BOOLEAN]
    /\ thread \in [Activities -> ThreadState]
    /\ mIn \in [Activities -> BOOLEAN]
    /\ vSuspending \in [Activities -> BOOLEAN]
    /\ surfaceDone \in [Activities -> BOOLEAN]
    /\ queue \in Seq(Task)
    /\ posted \in Seq(Post)
    /\ connecting \in [Activities -> Nat]
    /\ rgb \in BOOLEAN
    /\ events \in 0..MaxEvents
    /\ late \subseteq Activities
    /\ freedInUse \in BOOLEAN

Free == [op |-> "free", act |-> NoActivity]

Init ==
    /\ alive = TRUE
    /\ ui = Free
    /\ life = [a \in Activities |-> "unborn"]
    /\ finishing = [a \in Activities |-> FALSE]
    /\ launching = TRUE
    /\ suspending = [a \in Activities |-> FALSE]
    /\ title = [a \in Activities |-> "connecting"]
    /\ mRun = [a \in Activities |-> FALSE]
    /\ thread = [a \in Activities |-> "new"]
    /\ mIn = [a \in Activities |-> FALSE]
    /\ vSuspending = [a \in Activities |-> FALSE]
    /\ surfaceDone = [a \in Activities |-> FALSE]
    /\ queue = <<>>
    /\ posted = <<>>
    /\ connecting = [a \in Activities |-> 0]
    /\ rgb = FALSE
    /\ events = 0
    /\ late = {}
    /\ freedInUse = FALSE

\* The UI thread can take up the next call or message.
UiFree == alive /\ ui = Free

\* An event of the user, counted.
Event == events < MaxEvents /\ events' = events + 1

Execute(tasks) == queue' = queue \o tasks

Read(a) == [kind |-> "read", act |-> a]
Message(a) == [kind |-> "message", act |-> a]
Restart(a) == [kind |-> "restart", act |-> a]

-----------------------------------------------------------------------------
(* stopPlayback, in two halves. *)

\* join waits for a thread that was started and has not returned.
StopsThread(a) == thread[a] \in Running

\* The rest of stopPlayback once the thread is gone.
Stopped(a) ==
    /\ thread' = [thread EXCEPT ![a] = "null"]
    /\ mIn' = [mIn EXCEPT ![a] = FALSE]

\* Mutant of StopBegin: the stream is closed before the thread has ended.
StopClosesFirst(a, op) ==
    /\ vSuspending' = [vSuspending EXCEPT ![a] = @ \/ mRun[a]]
    /\ mRun' = [mRun EXCEPT ![a] = FALSE]
    /\ mIn' = [mIn EXCEPT ![a] = FALSE]
    /\ IF StopsThread(a)
         THEN ui' = [op |-> op, act |-> a] /\ UNCHANGED thread
         ELSE thread' = [thread EXCEPT ![a] = "null"] /\ UNCHANGED ui

StopBegin(a, op) ==
    /\ vSuspending' = [vSuspending EXCEPT ![a] = @ \/ mRun[a]]
    /\ mRun' = [mRun EXCEPT ![a] = FALSE]
    /\ IF StopsThread(a)
         THEN ui' = [op |-> op, act |-> a] /\ UNCHANGED <<thread, mIn>>
         ELSE Stopped(a) /\ UNCHANGED ui

\* join returns; onPause goes on with its own flag.
JoinReturns ==
    /\ alive
    /\ ui # Free
    /\ thread[ui.act] = "ended"
    /\ Stopped(ui.act)
    /\ ui' = Free
    /\ suspending' = [suspending EXCEPT ![ui.act] = @ \/ ui.op = "pause"]
    /\ UNCHANGED <<alive, life, finishing, launching, title, mRun, vSuspending,
                   surfaceDone, taskVars, nativeVars, events, late>>

-----------------------------------------------------------------------------
(* Calls of Android, on the UI thread. *)

Resumed == {a \in Activities : life[a] = "resumed"}

\* onCreate and onResume of a new instance, which has nothing to resume: the
\* connection first, then the greeting.
Launch(a) ==
    /\ UiFree
    /\ launching
    /\ life[a] = "unborn"
    /\ Resumed = {}
    /\ life' = [life EXCEPT ![a] = "resumed"]
    /\ launching' = FALSE
    /\ Execute(<<Read(a), Message(a)>>)
    /\ connecting' = [connecting EXCEPT ![a] = @ + 1]
    /\ UNCHANGED <<alive, ui, finishing, suspending, title, viewVars, posted,
                   nativeVars, events, late>>

\* The user opens the application again after all its activities are gone, or
\* turns the tablet, which destroys an activity to launch another.
Reopen ==
    /\ UiFree
    /\ \A a \in Activities : life[a] \in {"unborn", "destroyed"}
    /\ \E a \in Activities : life[a] = "destroyed"
    /\ ~launching
    /\ launching' = TRUE
    /\ UNCHANGED <<alive, ui, life, finishing, suspending, title, viewVars,
                   taskVars, nativeVars, events, late>>

\* Mutant of Pause: it does not stop the playback.
PauseForgetsStop(a) ==
    /\ UiFree
    /\ life[a] = "resumed"
    /\ IF finishing[a] \/ launching THEN UNCHANGED events ELSE Event
    /\ life' = [life EXCEPT ![a] = "paused"]
    /\ suspending' = [suspending EXCEPT ![a] = @ \/ mRun[a]]
    /\ UNCHANGED <<alive, ui, finishing, launching, title, viewVars, taskVars,
                   nativeVars, late>>

\* onPause: only an activity that is streaming remembers to reconnect.
Pause(a) ==
    /\ UiFree
    /\ life[a] = "resumed"
    /\ IF finishing[a] \/ launching THEN UNCHANGED events ELSE Event
    /\ life' = [life EXCEPT ![a] = "paused"]
    /\ IF mRun[a]
         THEN /\ StopBegin(a, "pause")
              /\ suspending' = [suspending EXCEPT ![a] = @ \/ ~StopsThread(a)]
         ELSE UNCHANGED <<ui, suspending, mRun, thread, mIn, vSuspending>>
    /\ UNCHANGED <<alive, finishing, launching, title, surfaceDone, taskVars,
                   nativeVars, late>>

\* Mutants of Reconnects: a paused activity always connects again, or never.
AlwaysReconnects(a) == TRUE
NeverReconnects(a) == FALSE

Reconnects(a) == suspending[a]

\* onResume; coming from the settings, onActivityResult is called before it.
Resume(a, saved) ==
    /\ UiFree
    /\ life[a] = "paused"
    /\ ~finishing[a]
    /\ ~launching
    /\ Resumed = {}
    /\ IF saved THEN Event ELSE UNCHANGED events
    /\ life' = [life EXCEPT ![a] = "resumed"]
    /\ Execute((IF saved THEN <<Restart(a)>> ELSE <<>>)
                 \o (IF Reconnects(a) THEN <<Read(a)>> ELSE <<>>))
    /\ connecting' = [connecting EXCEPT ![a] = IF Reconnects(a) THEN @ + 1 ELSE @]
    /\ suspending' = [suspending EXCEPT ![a] = FALSE]
    /\ UNCHANGED <<alive, ui, finishing, launching, title, viewVars, posted,
                   nativeVars, late>>

\* Mutant of FreesBuffer: freeCameraMemory without its test.
AlwaysFrees(a) == TRUE

FreesBuffer(a) == mIn[a]

\* onDestroy: frees the native buffer if the view still has a stream.
Destroy(a) ==
    /\ UiFree
    /\ life[a] = "paused"
    /\ life' = [life EXCEPT ![a] = "destroyed"]
    /\ rgb' = (rgb /\ ~FreesBuffer(a))
    /\ freedInUse' = (freedInUse \/ (rgb /\ FreesBuffer(a)
                        /\ \E b \in Activities : thread[b] \in {"native", "stuck"}))
    /\ UNCHANGED <<alive, ui, finishing, launching, suspending, title, viewVars,
                   taskVars, events, late>>

SurfaceCreated(a) ==
    /\ UiFree
    /\ life[a] = "resumed"
    /\ ~surfaceDone[a]
    /\ surfaceDone' = [surfaceDone EXCEPT ![a] = TRUE]
    /\ UNCHANGED <<alive, ui, activityVars, mRun, thread, mIn, vSuspending,
                   taskVars, nativeVars, events, late>>

SurfaceDestroyed(a) ==
    /\ UiFree
    /\ life[a] \in {"paused", "destroyed"}
    /\ surfaceDone[a]
    /\ surfaceDone' = [surfaceDone EXCEPT ![a] = FALSE]
    /\ StopBegin(a, "surface")
    /\ UNCHANGED <<alive, activityVars, taskVars, nativeVars, events, late>>

\* onClick of a button: a message to the console.
PressButton(a) ==
    /\ UiFree
    /\ life[a] = "resumed"
    /\ Event
    /\ Execute(<<Message(a)>>)
    /\ UNCHANGED <<alive, ui, activityVars, viewVars, posted, connecting,
                   nativeVars, late>>

-----------------------------------------------------------------------------
(* The tasks.  Each is done before the next begins. *)

RunningTask(kind) == alive /\ queue # <<>> /\ Head(queue).kind = kind

\* Mutant of TaskDone: the task stays in the queue and is run again.
TaskStays(kind) ==
    /\ posted' = Append(posted, [kind |-> kind, act |-> Head(queue).act])
    /\ UNCHANGED queue

TaskDone(kind) ==
    /\ queue' = Tail(queue)
    /\ posted' = Append(posted, [kind |-> kind, act |-> Head(queue).act])

\* Mutant of ReadDone: a failed connection posts no result.
ReadFailsSilently ==
    /\ RunningTask("read")
    /\ \/ TaskDone("connected")
       \/ queue' = Tail(queue) /\ UNCHANGED posted
    /\ UNCHANGED <<alive, ui, activityVars, viewVars, connecting, nativeVars,
                   events, late>>

\* DoRead.doInBackground: its timeouts make it end, one way or the other.
ReadDone ==
    /\ RunningTask("read")
    /\ \E result \in {"connected", "failed"} : TaskDone(result)
    /\ UNCHANGED <<alive, ui, activityVars, viewVars, connecting, nativeVars,
                   events, late>>

\* ZeroMQMessageTask.doInBackground: recv may wait for ever.
MessageDone ==
    /\ RunningTask("message")
    /\ TaskDone("reply")
    /\ UNCHANGED <<alive, ui, activityVars, viewVars, connecting, nativeVars,
                   events, late>>

\* RestartApp.doInBackground: finish() of the activity that executed it.
RestartDone ==
    /\ RunningTask("restart")
    /\ finishing' = [finishing EXCEPT ![Head(queue).act] = TRUE]
    /\ TaskDone("restart")
    /\ UNCHANGED <<alive, ui, life, launching, suspending, title, viewVars,
                   connecting, nativeVars, events, late>>

-----------------------------------------------------------------------------
(* Messages on the UI thread. *)

IsPosted(kind) == UiFree /\ posted # <<>> /\ Head(posted).kind = kind

\* The thread that setSource starts: resumePlayback always constructs one,
\* startPlayback only when the field is null.  Starting a thread twice throws.
SetSource(a) ==
    /\ mIn' = [mIn EXCEPT ![a] = TRUE]
    /\ mRun' = [mRun EXCEPT ![a] = TRUE]
    /\ vSuspending' = [vSuspending EXCEPT ![a] = FALSE]
    /\ IF vSuspending[a] \/ thread[a] \in {"new", "null"}
         THEN thread' = [thread EXCEPT ![a] = "loop"] /\ UNCHANGED alive
         ELSE alive' = FALSE /\ UNCHANGED thread

\* DoRead.onPostExecute with a stream.
Connected ==
    /\ IsPosted("connected")
    /\ LET a == Head(posted).act IN
         /\ SetSource(a)
         /\ title' = [title EXCEPT ![a] = "app_name"]
         /\ connecting' = [connecting EXCEPT ![a] = @ - 1]
         /\ late' = IF life[a] = "resumed" THEN late ELSE late \cup {a}
    /\ posted' = Tail(posted)
    /\ UNCHANGED <<ui, life, finishing, launching, suspending, surfaceDone, queue,
                   nativeVars, events>>

\* DoRead.onPostExecute without: setSource(null) starts nothing.
Failed ==
    /\ IsPosted("failed")
    /\ LET a == Head(posted).act IN
         /\ mIn' = [mIn EXCEPT ![a] = FALSE]
         /\ title' = [title EXCEPT ![a] = "disconnected"]
         /\ connecting' = [connecting EXCEPT ![a] = @ - 1]
    /\ posted' = Tail(posted)
    /\ UNCHANGED <<alive, ui, life, finishing, launching, suspending, mRun, thread,
                   vSuspending, surfaceDone, queue, nativeVars, events, late>>

\* The text of a reply is shown, a restart starts an activity, setImageError
\* sets the title.
OtherPost ==
    /\ UiFree
    /\ posted # <<>>
    /\ Head(posted).kind \in {"reply", "restart", "imageerror"}
    /\ launching' = (launching \/ Head(posted).kind = "restart")
    /\ title' = IF Head(posted).kind = "imageerror"
                  THEN [title EXCEPT ![Head(posted).act] = "imageerror"] ELSE title
    /\ posted' = Tail(posted)
    /\ UNCHANGED <<alive, ui, life, finishing, suspending, viewVars, queue,
                   connecting, nativeVars, events, late>>

-----------------------------------------------------------------------------
(* MjpegViewThread.run *)

ThreadAt(a, l) == alive /\ thread[a] = l

ThreadGoTo(a, l) == thread' = [thread EXCEPT ![a] = l]

\* Mutant of LeavesLoop: the loop ends only with the stream.
NeverLeavesLoop(a) == FALSE

LeavesLoop(a) == ~mRun[a]

\* Without a surface the thread goes round and round here.
ThreadLoop(a) ==
    /\ ThreadAt(a, "loop")
    /\ LeavesLoop(a) \/ surfaceDone[a]
    /\ ThreadGoTo(a, IF LeavesLoop(a) THEN "ended" ELSE "read")
    /\ UNCHANGED <<alive, ui, activityVars, mRun, mIn, vSuspending, surfaceDone,
                   taskVars, nativeVars, events, late>>

\* readMjpegFrame up to the native call: a frame, the end of the stream (-1),
\* an IOException the loop swallows, or another exception, which nobody catches.
ThreadRead(a) ==
    /\ ThreadAt(a, "read")
    /\ \/ ThreadGoTo(a, "native") /\ UNCHANGED <<alive, posted>>
       \/ ThreadGoTo(a, "loop") /\ UNCHANGED <<alive, posted>>
       \/ /\ ThreadGoTo(a, "ended")
          /\ posted' = Append(posted, [kind |-> "imageerror", act |-> a])
          /\ UNCHANGED alive
       \/ alive' = FALSE /\ UNCHANGED <<thread, posted>>
    /\ UNCHANGED <<ui, activityVars, mRun, mIn, vSuspending, surfaceDone, queue,
                   connecting, nativeVars, events, late>>

\* pixeltobmp: a picture to draw, an endless loop, or -1.
ThreadNative(a) ==
    /\ ThreadAt(a, "native")
    /\ rgb' = TRUE
    /\ \/ ThreadGoTo(a, "loop") /\ UNCHANGED posted
       \/ ThreadGoTo(a, "stuck") /\ UNCHANGED posted
       \/ /\ ThreadGoTo(a, "ended")
          /\ posted' = Append(posted, [kind |-> "imageerror", act |-> a])
    /\ UNCHANGED <<alive, ui, activityVars, mRun, mIn, vSuspending, surfaceDone,
                   queue, connecting, freedInUse, events, late>>

-----------------------------------------------------------------------------
Android ==
    \/ Reopen
    \/ \E a \in Activities :
         \/ Launch(a)
         \/ Pause(a)
         \/ \E saved \in BOOLEAN : Resume(a, saved)
         \/ Destroy(a)
         \/ SurfaceCreated(a)
         \/ SurfaceDestroyed(a)
         \/ PressButton(a)

Ui == JoinReturns \/ Connected \/ Failed \/ OtherPost

Executor == ReadDone \/ RestartDone

ViewThread(a) == ThreadLoop(a) \/ ThreadRead(a) \/ ThreadNative(a)

Next ==
    \/ Android
    \/ Ui
    \/ Executor
    \/ MessageDone
    \/ \E a \in Activities : ViewThread(a)

Spec == Init /\ [][Next]_vars

(***************************************************************************)
(* The UI thread, the executor and the view threads run when they can.     *)
(* Nothing is assumed of users, of Android's calls, nor of replies.        *)
(***************************************************************************)
Fairness ==
    /\ WF_vars(Ui)
    /\ WF_vars(Executor)
    /\ \A a \in Activities : WF_vars(ViewThread(a))

FairSpec == Spec /\ Fairness

-----------------------------------------------------------------------------
(* Properties *)

\* At most one connection of an activity is under way, and while it is the
\* view is at rest: so setSource (MjpegView.java:273) never replaces a stream
\* in use nor starts a second thread, although it checks for neither.
OneConnection ==
    \A a \in Activities :
        /\ connecting[a] <= 1
        /\ connecting[a] = 1 => ~mRun[a] /\ thread[a] \notin Running /\ ~mIn[a]

\* Playback has a stream to read: a thread that runs does so before its
\* stream is closed (MjpegView.java:225-247 joins before it closes).
ThreadHasStream ==
    \A a \in Activities : thread[a] \in Running => mIn[a]

\* A thread runs on for an activity that is not resumed only while onPause or
\* surfaceDestroyed waits for it, or when its connection came too late, after
\* onPause had found nothing to stop (MjpegActivity.java:268-277).
StrayThreadIsLate ==
    \A a \in Activities :
        thread[a] \in Running /\ life[a] # "resumed" => ui.act = a \/ a \in late

\* Two threads are in the native code, or the buffer is freed under one, only
\* after such a late connection (MjpegActivity.java:283-291).
NativeAlone ==
    late = {} =>
        /\ ~freedInUse
        /\ \A a, b \in Activities :
             thread[a] \in {"native", "stuck"} /\ thread[b] \in {"native", "stuck"}
               => a = b

\* A resumed activity that says it is connected plays, or a late connection
\* was stopped again by surfaceDestroyed, behind the activity's back.
TitleTrue ==
    \A a \in Activities :
        life[a] = "resumed" /\ title[a] = "app_name" /\ connecting[a] = 0 /\ alive
          => mRun[a] \/ a \in late

\* The native buffer is not freed in the ordinary life of an activity: onPause
\* has closed the stream before onDestroy looks for it (MjpegActivity.java:286),
\* so the next activity finds the buffer of the last.
BufferOutlives ==
    [][rgb /\ ~rgb' => \E a \in late : life[a] = "paused"]_vars

\* What can hold up the application for ever: a message without a reply at the
\* head of the queue, a thread that cannot leave the native code, its own end.
HeldUp ==
    \/ ~alive
    \/ queue # <<>> /\ Head(queue).kind = "message"
    \/ \E a \in Activities : thread[a] = "stuck"

\* join returns: the thread sees the flag after at most one more frame, unless
\* that frame never ends (MjpegView.java:233).
StopReturns == ui # Free ~> ui = Free \/ HeldUp

\* A connection that was asked for comes up or fails, unless a message of the
\* same queue waits for the console's reply (ZeroMQMessageTask.java:28).
ConnectionSettled ==
    \A a \in Activities : connecting[a] > 0 ~> connecting[a] = 0 \/ HeldUp
=============================================================================
