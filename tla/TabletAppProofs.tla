--------------------------- MODULE TabletAppProofs --------------------------
(***************************************************************************)
(* Proofs about TabletApp, for any number of activities and events.        *)
(***************************************************************************)
EXTENDS TabletApp, SequenceTheorems, TLAPS

-----------------------------------------------------------------------------
(* How often something stands in a sequence. *)

\* No element of s is one of K.
NoneIn(s, K) == \A i \in 1..Len(s) : s[i] \notin K

\* Exactly one element of s is one of K.
OneIn(s, K) ==
    \E i \in 1..Len(s) : s[i] \in K /\ \A j \in 1..Len(s) : s[j] \in K => j = i

\* Taking away the first element: what is not in the sequence stays out of it.
LEMMA NoneInTail ==
  ASSUME NEW S, NEW s \in Seq(S), s # <<>>, NEW K, NoneIn(s, K)
  PROVE  NoneIn(Tail(s), K)
  BY DEF NoneIn

\* The only one of its kind is gone if it was the first element.
LEMMA OneInTailOut ==
  ASSUME NEW S, NEW s \in Seq(S), s # <<>>, NEW K, OneIn(s, K), Head(s) \in K
  PROVE  NoneIn(Tail(s), K)
<1>1. PICK i \in 1..Len(s) : s[i] \in K /\ \A j \in 1..Len(s) : s[j] \in K => j = i
  BY DEF OneIn
<1>2. s[1] \in K /\ 1 \in 1..Len(s)
  OBVIOUS
<1>3. i = 1
  BY <1>1, <1>2
<1>4. SUFFICES ASSUME NEW j \in 1..Len(Tail(s)) PROVE Tail(s)[j] \notin K
  BY DEF NoneIn
<1>5. Tail(s)[j] = s[j + 1] /\ j + 1 \in 1..Len(s) /\ j + 1 # 1
  OBVIOUS
<1> QED
  BY <1>1, <1>3, <1>5

\* It is still there if it was another.
LEMMA OneInTailStays ==
  ASSUME NEW S, NEW s \in Seq(S), s # <<>>, NEW K, OneIn(s, K), Head(s) \notin K
  PROVE  OneIn(Tail(s), K)
<1>1. PICK i \in 1..Len(s) : s[i] \in K /\ \A j \in 1..Len(s) : s[j] \in K => j = i
  BY DEF OneIn
<1>2. i # 1
  BY <1>1
<1>3. i - 1 \in 1..Len(Tail(s)) /\ Tail(s)[i - 1] = s[i]
  BY <1>2
<1>4. ASSUME NEW j \in 1..Len(Tail(s)), Tail(s)[j] \in K PROVE j = i - 1
  <2>1. Tail(s)[j] = s[j + 1] /\ j + 1 \in 1..Len(s)
    OBVIOUS
  <2> QED
    BY <1>1, <1>4, <2>1
<1> QED
  BY <1>1, <1>3, <1>4 DEF OneIn

\* A new last element of another kind changes nothing.
LEMMA AppendOther ==
  ASSUME NEW S, NEW s \in Seq(S), NEW e \in S, NEW K, e \notin K
  PROVE  /\ NoneIn(s, K) => NoneIn(Append(s, e), K)
         /\ OneIn(s, K) => OneIn(Append(s, e), K)
<1>1. /\ Len(Append(s, e)) = Len(s) + 1
      /\ \A i \in 1..Len(s) : Append(s, e)[i] = s[i]
      /\ Append(s, e)[Len(s) + 1] = e
  OBVIOUS
<1>2. Len(s) \in Nat
  OBVIOUS
<1>3. NoneIn(s, K) => NoneIn(Append(s, e), K)
  BY <1>1, <1>2 DEF NoneIn
<1>4. ASSUME OneIn(s, K) PROVE OneIn(Append(s, e), K)
  <2>1. PICK i \in 1..Len(s) : s[i] \in K /\ \A j \in 1..Len(s) : s[j] \in K => j = i
    BY <1>4 DEF OneIn
  <2>2. i \in 1..Len(Append(s, e)) /\ Append(s, e)[i] \in K
    BY <1>1, <1>2, <2>1
  <2>3. \A j \in 1..Len(Append(s, e)) : Append(s, e)[j] \in K => j = i
    BY <1>1, <1>2, <2>1
  <2> QED
    BY <2>2, <2>3 DEF OneIn
<1> QED
  BY <1>3, <1>4

\* The first of its kind at the end is the only one.
LEMMA AppendFirst ==
  ASSUME NEW S, NEW s \in Seq(S), NEW e \in S, NEW K, e \in K, NoneIn(s, K)
  PROVE  OneIn(Append(s, e), K)
<1>1. /\ Len(Append(s, e)) = Len(s) + 1
      /\ \A i \in 1..Len(s) : Append(s, e)[i] = s[i]
      /\ Append(s, e)[Len(s) + 1] = e
  OBVIOUS
<1>2. Len(s) + 1 \in 1..Len(Append(s, e))
  BY <1>1
<1>3. \A j \in 1..Len(Append(s, e)) : Append(s, e)[j] \in K => j = Len(s) + 1
  BY <1>1 DEF NoneIn
<1> QED
  BY <1>1, <1>2, <1>3 DEF OneIn

\* Executing tasks one after the other is executing them together.
LEMMA ConcatOne ==
  ASSUME NEW S, NEW s \in Seq(S), NEW e \in S
  PROVE  s \o <<e>> = Append(s, e)
  OBVIOUS

LEMMA ConcatTwo ==
  ASSUME NEW S, NEW s \in Seq(S), NEW e \in S, NEW f \in S
  PROVE  s \o <<e, f>> = Append(Append(s, e), f)
  OBVIOUS

LEMMA ConcatTasks ==
  ASSUME NEW S, NEW s \in Seq(S), NEW e \in S, NEW f \in S
  PROVE  /\ s \o (<<e>> \o <<f>>) = Append(Append(s, e), f)
         /\ s \o (<<>> \o <<f>>) = Append(s, f)
         /\ s \o (<<e>> \o <<>>) = Append(s, e)
         /\ s \o (<<>> \o <<>>) = s
<1>1. /\ <<e>> \in Seq(S) /\ <<f>> \in Seq(S) /\ <<>> \in Seq(S)
      /\ s \o <<e>> \in Seq(S)
  OBVIOUS
<1>2. s \o (<<e>> \o <<f>>) = (s \o <<e>>) \o <<f>>
  <2> DEFINE t == <<e>>
             u == <<f>>
  <2>1. t \in Seq(S) /\ u \in Seq(S)
    BY <1>1
  <2> HIDE DEF t, u
  <2>2. (s \o t) \o u = s \o (t \o u)
    BY <2>1, ConcatAssociative
  <2> QED
    BY <2>2 DEF t, u
<1>3. (s \o <<e>>) \o <<f>> = Append(s \o <<e>>, f)
  BY <1>1, ConcatOne, Zenon
<1>4. s \o <<e>> = Append(s, e) /\ s \o <<f>> = Append(s, f)
  BY ConcatOne, Zenon
<1>5. /\ <<>> \o <<f>> = <<f>> /\ <<e>> \o <<>> = <<e>>
      /\ <<>> \o <<>> = <<>> /\ s \o <<>> = s
  BY <1>1, ConcatEmptySeq, Zenon
<1> QED
  BY <1>2, <1>3, <1>4, <1>5, Zenon

-----------------------------------------------------------------------------
(***************************************************************************)
(* The inductive invariant.                                                *)
(***************************************************************************)

\* A DoRead of a that waits or runs, and the result of one.
Reads(a) == {Read(a)}
Results(a) == [kind : {"connected", "failed"}, act : {a}]

\* An activity has no connection under way, or one: its task is in the queue
\* or its result is on its way, never both and never twice.
Counted(a) ==
    \/ connecting[a] = 0 /\ NoneIn(queue, Reads(a)) /\ NoneIn(posted, Results(a))
    \/ connecting[a] = 1 /\ OneIn(queue, Reads(a)) /\ NoneIn(posted, Results(a))
    \/ connecting[a] = 1 /\ NoneIn(queue, Reads(a)) /\ OneIn(posted, Results(a))

ConnectionsCounted == \A a \in Activities : Counted(a)

\* A view has a stream as long as it has a thread, which is as long as it either
\* plays or is what the user-interface thread waits for; and no connection then.
StreamOfThread ==
    \A a \in Activities :
        /\ mIn[a] <=> thread[a] \notin {"new", "null"}
        /\ mIn[a] <=> mRun[a] \/ ui.act = a
        /\ mRun[a] => ui.act # a
        /\ mIn[a] => connecting[a] = 0

\* Whom the user-interface thread waits for: the activity it is pausing, with
\* no other one resumed, or one that a late connection had started.
WaitsFor ==
    \/ ui = Free
    \/ /\ ui.op = "pause" /\ ui.act \in Activities
       /\ life[ui.act] = "paused"
       /\ Resumed = {}
    \/ /\ ui.op = "surface" /\ ui.act \in late
       /\ life[ui.act] \in {"paused", "destroyed"}

\* An activity that is to reconnect is paused, at rest, and not connecting.
SuspendedAtRest ==
    \A a \in Activities : suspending[a] =>
        life[a] \in {"paused", "destroyed"} /\ ~mIn[a] /\ connecting[a] = 0

\* Nothing has happened to an activity that was not launched.
UnbornUntouched ==
    \A a \in Activities : life[a] = "unborn" => ~mIn[a] /\ connecting[a] = 0

OneResumed == \A a, b \in Resumed : a = b

\* Only a late connection plays for an activity that is not resumed.
PlaysResumed == \A a \in Activities : mRun[a] => life[a] = "resumed" \/ a \in late

\* An activity that says it is connected plays, connects again, is about to,
\* or was reached too late.
TitleTraced ==
    \A a \in Activities :
        title[a] = "app_name" =>
            \/ mRun[a] \/ connecting[a] = 1 \/ suspending[a] \/ a \in late
            \/ ui = [op |-> "pause", act |-> a]

ViewInv ==
    /\ StreamOfThread
    /\ WaitsFor
    /\ SuspendedAtRest
    /\ UnbornUntouched
    /\ OneResumed
    /\ PlaysResumed
    /\ TitleTraced
    /\ freedInUse => late # {}

AppInv == ConnectionsCounted /\ ViewInv

-----------------------------------------------------------------------------
(* Type correctness. *)

\* Nothing runs and nothing was asked for when the application starts.
LEMMA AppTypeInit == Init => TypeOK
<1> SUFFICES ASSUME Init PROVE TypeOK
  OBVIOUS
<1>1. queue \in Seq(Task) /\ posted \in Seq(Post)
  BY DEF Init
<1>2. ui \in [op : {"free", "pause", "surface"}, act : Activities \cup {NoActivity}]
  BY DEF Init, Free
<1>3. /\ alive \in BOOLEAN /\ launching \in BOOLEAN /\ rgb \in BOOLEAN
      /\ freedInUse \in BOOLEAN
      /\ finishing \in [Activities -> BOOLEAN]
      /\ suspending \in [Activities -> BOOLEAN]
      /\ mRun \in [Activities -> BOOLEAN]
      /\ mIn \in [Activities -> BOOLEAN]
      /\ vSuspending \in [Activities -> BOOLEAN]
      /\ surfaceDone \in [Activities -> BOOLEAN]
  BY DEF Init
<1>4. /\ life \in [Activities -> {"unborn", "resumed", "paused", "destroyed"}]
      /\ title \in [Activities -> {"connecting", "app_name", "disconnected", "imageerror"}]
      /\ thread \in [Activities -> ThreadState]
      /\ connecting \in [Activities -> Nat]
      /\ events \in 0..MaxEvents
      /\ late \subseteq Activities
  BY MaxEventsAssumption DEF Init, ThreadState
<1> QED
  BY <1>1, <1>2, <1>3, <1>4 DEF TypeOK

\* stopPlayback, up to where it waits.
LEMMA StopType ==
  ASSUME TypeOK, NEW a \in Activities, NEW op \in {"pause", "surface"},
         StopBegin(a, op)
  PROVE  /\ ui' \in [op : {"free", "pause", "surface"}, act : Activities \cup {NoActivity}]
         /\ mRun' \in [Activities -> BOOLEAN]
         /\ vSuspending' \in [Activities -> BOOLEAN]
         /\ thread' \in [Activities -> ThreadState]
         /\ mIn' \in [Activities -> BOOLEAN]
<1>1. ui' = ui \/ ui' = [op |-> op, act |-> a]
  BY Zenon DEF StopBegin
<1>2. thread' = thread \/ thread' = [thread EXCEPT ![a] = "null"]
  BY Zenon DEF StopBegin, Stopped
<1>3. mIn' = mIn \/ mIn' = [mIn EXCEPT ![a] = FALSE]
  BY Zenon DEF StopBegin, Stopped
<1>4. vSuspending' = [vSuspending EXCEPT ![a] = vSuspending[a] \/ mRun[a]]
  BY Zenon DEF StopBegin
<1>5. mRun' = [mRun EXCEPT ![a] = FALSE]
  BY DEF StopBegin
<1>6. vSuspending' \in [Activities -> BOOLEAN]
  BY <1>4, Zenon DEF TypeOK
<1>7. mRun' \in [Activities -> BOOLEAN] /\ mIn' \in [Activities -> BOOLEAN]
  BY <1>3, <1>5 DEF TypeOK
<1>8. ui' \in [op : {"free", "pause", "surface"}, act : Activities \cup {NoActivity}]
  BY <1>1 DEF TypeOK
<1>9. thread' \in [Activities -> ThreadState]
  BY <1>2 DEF TypeOK, ThreadState
<1> QED
  BY <1>6, <1>7, <1>8, <1>9

\* New tasks are tasks, and wait at the end of the queue.
LEMMA ExecuteType ==
  ASSUME queue \in Seq(Task), NEW tasks \in Seq(Task), Execute(tasks)
  PROVE  queue' \in Seq(Task)
  BY DEF Execute

LEMMA TaskKinds ==
  ASSUME NEW a \in Activities
  PROVE  Read(a) \in Task /\ Message(a) \in Task /\ Restart(a) \in Task
  BY DEF Read, Message, Restart, Task

\* A task that is done leaves the queue for a message to the UI thread.
LEMMA TaskDoneType ==
  ASSUME TypeOK, queue # <<>>, NEW kind, TaskDone(kind),
         kind \in {"connected", "failed", "reply", "restart", "imageerror"}
  PROVE  queue' \in Seq(Task) /\ posted' \in Seq(Post) /\ Head(queue).act \in Activities
<1>1. queue \in Seq(Task) /\ posted \in Seq(Post)
  BY DEF TypeOK
<1>2. Head(queue) \in Task /\ Tail(queue) \in Seq(Task)
  BY <1>1
<1>3. Head(queue).act \in Activities
  BY <1>2 DEF Task
<1>4. [kind |-> kind, act |-> Head(queue).act] \in Post
  BY <1>3 DEF Post
<1> QED
  BY <1>1, <1>2, <1>3, <1>4 DEF TaskDone

\* A message that is handled leaves the queue of the UI thread.
LEMMA PostType ==
  ASSUME TypeOK, posted # <<>>
  PROVE  Tail(posted) \in Seq(Post) /\ Head(posted).act \in Activities
<1>1. posted \in Seq(Post)
  BY DEF TypeOK
<1>2. Head(posted) \in Post /\ Tail(posted) \in Seq(Post)
  BY <1>1
<1> QED
  BY <1>2 DEF Post

\* Android's calls.
LEMMA AndroidType ==
  ASSUME TypeOK, AppInv, Android
  PROVE  TypeOK'
<1>1. CASE Reopen
  BY <1>1 DEF Reopen, TypeOK, viewVars, taskVars, nativeVars
<1>2. ASSUME NEW a \in Activities, Launch(a) PROVE TypeOK'
  <2>1. queue' \in Seq(Task)
    <3>1. <<Read(a), Message(a)>> \in Seq(Task)
      BY TaskKinds
    <3> QED
      BY <1>2, <3>1, ExecuteType DEF Launch, TypeOK
  <2>2. connecting' \in [Activities -> Nat]
    BY <1>2 DEF Launch, TypeOK
  <2>3. life' \in [Activities -> {"unborn", "resumed", "paused", "destroyed"}]
    BY <1>2 DEF Launch, TypeOK
  <2> QED
    BY <1>2, <2>1, <2>2, <2>3 DEF Launch, TypeOK, viewVars, nativeVars
<1>3. ASSUME NEW a \in Activities, Pause(a) PROVE TypeOK'
  <2>1. /\ ui' \in [op : {"free", "pause", "surface"}, act : Activities \cup {NoActivity}]
        /\ mRun' \in [Activities -> BOOLEAN]
        /\ vSuspending' \in [Activities -> BOOLEAN]
        /\ thread' \in [Activities -> ThreadState]
        /\ mIn' \in [Activities -> BOOLEAN]
    <3>1. CASE mRun[a]
      BY <1>3, <3>1, StopType DEF Pause
    <3>2. CASE ~mRun[a]
      BY <1>3, <3>2 DEF Pause, TypeOK
    <3> QED
      BY <3>1, <3>2
  <2>2. suspending' \in [Activities -> BOOLEAN]
    <3>1. \/ suspending' = suspending
          \/ suspending' = [suspending EXCEPT ![a] = suspending[a] \/ ~StopsThread(a)]
      BY <1>3, Zenon DEF Pause
    <3> QED
      BY <3>1, Zenon DEF TypeOK
  <2>3. events' \in 0..MaxEvents
    BY <1>3, MaxEventsAssumption DEF Pause, Event, TypeOK
  <2> QED
    BY <1>3, <2>1, <2>2, <2>3 DEF Pause, TypeOK, taskVars, nativeVars
<1>4. ASSUME NEW a \in Activities, NEW saved \in BOOLEAN, Resume(a, saved) PROVE TypeOK'
  <2>1. queue' \in Seq(Task)
    <3>1. (IF saved THEN <<Restart(a)>> ELSE <<>>) \in Seq(Task)
      BY TaskKinds
    <3>2. (IF Reconnects(a) THEN <<Read(a)>> ELSE <<>>) \in Seq(Task)
      BY TaskKinds
    <3>3. (IF saved THEN <<Restart(a)>> ELSE <<>>)
             \o (IF Reconnects(a) THEN <<Read(a)>> ELSE <<>>) \in Seq(Task)
      BY <3>1, <3>2, ConcatProperties
    <3> QED
      BY <1>4, <3>3, ExecuteType DEF Resume, TypeOK
  <2>2. connecting' \in [Activities -> Nat]
    BY <1>4 DEF Resume, TypeOK
  <2>3. events' \in 0..MaxEvents
    BY <1>4, MaxEventsAssumption DEF Resume, Event, TypeOK
  <2> QED
    BY <1>4, <2>1, <2>2, <2>3 DEF Resume, TypeOK, viewVars, nativeVars
<1>5. ASSUME NEW a \in Activities, Destroy(a) PROVE TypeOK'
  <2>1. rgb' \in BOOLEAN /\ freedInUse' \in BOOLEAN
    BY <1>5, Zenon DEF Destroy
  <2> QED
    BY <1>5, <2>1 DEF Destroy, TypeOK, viewVars, taskVars
<1>6. ASSUME NEW a \in Activities, SurfaceCreated(a) PROVE TypeOK'
  BY <1>6 DEF SurfaceCreated, TypeOK, activityVars, taskVars, nativeVars
<1>7. ASSUME NEW a \in Activities, SurfaceDestroyed(a) PROVE TypeOK'
  <2>1. StopBegin(a, "surface")
    BY <1>7 DEF SurfaceDestroyed
  <2> QED
    BY <1>7, <2>1, StopType DEF SurfaceDestroyed, TypeOK, activityVars, taskVars, nativeVars
<1>8. ASSUME NEW a \in Activities, PressButton(a) PROVE TypeOK'
  <2>1. queue' \in Seq(Task)
    <3>1. <<Message(a)>> \in Seq(Task)
      BY TaskKinds
    <3> QED
      BY <1>8, <3>1, ExecuteType DEF PressButton, TypeOK
  <2> QED
    BY <1>8, <2>1, MaxEventsAssumption DEF PressButton, Event, TypeOK, activityVars,
       viewVars, nativeVars
<1> QED
  BY <1>1, <1>2, <1>3, <1>4, <1>5, <1>6, <1>7, <1>8 DEF Android

\* A result of a connection that arrives is that of the one counted.
LEMMA ResultArrives ==
  ASSUME TypeOK, ConnectionsCounted, posted # <<>>,
         Head(posted).kind \in {"connected", "failed"}
  PROVE  /\ Head(posted).act \in Activities
         /\ Head(posted) \in Results(Head(posted).act)
         /\ connecting[Head(posted).act] = 1
<1>1. Head(posted) \in Post /\ posted \in Seq(Post)
  BY DEF TypeOK
<1> DEFINE a == Head(posted).act
<1>2. a \in Activities /\ Head(posted) \in Results(a)
  BY <1>1 DEF Post, Results
<1>3. 1 \in 1..Len(posted) /\ posted[1] = Head(posted)
  BY <1>1
<1>4. ~NoneIn(posted, Results(a))
  BY <1>2, <1>3 DEF NoneIn
<1> QED
  BY <1>2, <1>4 DEF ConnectionsCounted, Counted

\* What the UI thread does on its own.
LEMMA UiType ==
  ASSUME TypeOK, AppInv, Ui
  PROVE  TypeOK'
<1>1. CASE JoinReturns
  <2>1. ui.act \in Activities
    BY <1>1, ActivityAssumption DEF JoinReturns, AppInv, ViewInv, WaitsFor, TypeOK
  <2>2. suspending' \in [Activities -> BOOLEAN]
    <3>1. suspending' = [suspending EXCEPT ![ui.act] = suspending[ui.act] \/ ui.op = "pause"]
      BY <1>1, Zenon DEF JoinReturns
    <3> QED
      BY <3>1, Zenon DEF TypeOK
  <2> QED
    BY <1>1, <2>1, <2>2 DEF JoinReturns, Stopped, Free, TypeOK, ThreadState, taskVars,
       nativeVars
<1>2. CASE Connected
  <2>1. posted # <<>> /\ posted' = Tail(posted)
    BY <1>2 DEF Connected, IsPosted
  <2> DEFINE a == Head(posted).act
  <2>2. a \in Activities /\ posted' \in Seq(Post)
    BY <2>1, PostType
  <2>3. connecting[a] = 1
    BY <1>2, <2>1, ResultArrives DEF Connected, IsPosted, AppInv
  <2>4. connecting' \in [Activities -> Nat]
    BY <1>2, <2>2, <2>3 DEF Connected, TypeOK
  <2>5. thread' \in [Activities -> ThreadState] /\ alive' \in BOOLEAN
    BY <1>2, <2>2 DEF Connected, SetSource, TypeOK, ThreadState
  <2>6. /\ mIn' \in [Activities -> BOOLEAN] /\ mRun' \in [Activities -> BOOLEAN]
        /\ vSuspending' \in [Activities -> BOOLEAN]
    BY <1>2, <2>2 DEF Connected, SetSource, TypeOK
  <2>7. late' \subseteq Activities
    BY <1>2, <2>2 DEF Connected, TypeOK
  <2> QED
    BY <1>2, <2>2, <2>4, <2>5, <2>6, <2>7 DEF Connected, TypeOK, nativeVars
<1>3. CASE Failed
  <2>1. posted # <<>> /\ posted' = Tail(posted)
    BY <1>3 DEF Failed, IsPosted
  <2> DEFINE a == Head(posted).act
  <2>2. a \in Activities /\ posted' \in Seq(Post)
    BY <2>1, PostType
  <2>3. connecting[a] = 1
    BY <1>3, <2>1, ResultArrives DEF Failed, IsPosted, AppInv
  <2>4. connecting' \in [Activities -> Nat]
    BY <1>3, <2>2, <2>3 DEF Failed, TypeOK
  <2> QED
    BY <1>3, <2>2, <2>4 DEF Failed, TypeOK, nativeVars
<1>4. CASE OtherPost
  <2>1. posted # <<>> /\ posted' = Tail(posted)
    BY <1>4 DEF OtherPost
  <2>2. launching' \in BOOLEAN
    BY <1>4, Zenon DEF OtherPost
  <2>3. title' = title \/ title' = [title EXCEPT ![Head(posted).act] = "imageerror"]
    BY <1>4, Zenon DEF OtherPost
  <2> QED
    BY <1>4, <2>1, <2>2, <2>3, PostType DEF OtherPost, TypeOK, viewVars, nativeVars
<1> QED
  BY <1>1, <1>2, <1>3, <1>4 DEF Ui

\* Tasks and view threads.
LEMMA WorkerType ==
  ASSUME TypeOK, Executor \/ MessageDone \/ \E a \in Activities : ViewThread(a)
  PROVE  TypeOK'
<1>1. CASE ReadDone \/ MessageDone
  <2>1. queue # <<>> /\ \E kind \in {"connected", "failed", "reply"} : TaskDone(kind)
    BY <1>1 DEF ReadDone, MessageDone, RunningTask
  <2>2. queue' \in Seq(Task) /\ posted' \in Seq(Post)
    BY <2>1, TaskDoneType
  <2> QED
    BY <1>1, <2>2 DEF ReadDone, MessageDone, TypeOK, activityVars, viewVars, nativeVars
<1>2. CASE RestartDone
  <2>1. queue # <<>> /\ TaskDone("restart")
    BY <1>2 DEF RestartDone, RunningTask
  <2>2. queue' \in Seq(Task) /\ posted' \in Seq(Post) /\ Head(queue).act \in Activities
    BY <2>1, TaskDoneType
  <2> QED
    BY <1>2, <2>2 DEF RestartDone, TypeOK, viewVars, nativeVars
<1>3. ASSUME NEW a \in Activities, ViewThread(a) PROVE TypeOK'
  <2>1. [kind |-> "imageerror", act |-> a] \in Post
    BY DEF Post
  <2>2. posted' = posted \/ posted' = Append(posted, [kind |-> "imageerror", act |-> a])
    BY <1>3, Zenon DEF ViewThread, ThreadLoop, ThreadRead, ThreadNative, taskVars
  <2>3. posted' \in Seq(Post)
    <3>1. posted \in Seq(Post)
      BY DEF TypeOK
    <3> QED
      BY <2>1, <2>2, <3>1
  <2>4. thread' = thread \/ \E l \in Running \cup {"ended"} : thread' = [thread EXCEPT ![a] = l]
    BY <1>3 DEF ViewThread, ThreadLoop, ThreadRead, ThreadNative, ThreadGoTo, Running
  <2>5. thread' \in [Activities -> ThreadState]
    BY <2>4 DEF TypeOK, ThreadState, Running
  <2>6. alive' \in BOOLEAN /\ rgb' \in BOOLEAN
    BY <1>3, Zenon DEF ViewThread, ThreadLoop, ThreadRead, ThreadNative, nativeVars, TypeOK
  <2>7. UNCHANGED <<ui, activityVars, mRun, mIn, vSuspending, surfaceDone, queue,
                    connecting, freedInUse, events, late>>
    BY <1>3, Zenon DEF ViewThread, ThreadLoop, ThreadRead, ThreadNative, taskVars, nativeVars
  <2> QED
    BY <2>3, <2>5, <2>6, <2>7 DEF TypeOK, activityVars
<1> QED
  BY <1>1, <1>2, <1>3 DEF Executor

\* The types hold in every step that starts where the invariant holds.
LEMMA AppTypeNext == TypeOK /\ AppInv /\ [Next]_vars => TypeOK'
<1> SUFFICES ASSUME TypeOK, AppInv, [Next]_vars PROVE TypeOK'
  OBVIOUS
<1>1. CASE UNCHANGED vars
  BY <1>1 DEF vars, activityVars, viewVars, taskVars, nativeVars, TypeOK
<1> QED
  BY <1>1, AndroidType, UiType, WorkerType DEF Next

-----------------------------------------------------------------------------
(* Connections are counted. *)

\* Which tasks and messages count.
LEMMA KindsThatCount ==
  ASSUME NEW a \in Activities, NEW b \in Activities
  PROVE  /\ Message(a) \notin Reads(b) /\ Restart(a) \notin Reads(b)
         /\ Read(a) \in Reads(a) /\ (Read(a) \in Reads(b) => a = b)
  BY DEF Message, Restart, Read, Reads

\* Steps that leave queue, messages and count as they are.
LEMMA CountedFrame ==
  ASSUME ConnectionsCounted, UNCHANGED taskVars
  PROVE  ConnectionsCounted'
  BY Zenon DEF ConnectionsCounted, Counted, Reads, Results, taskVars

\* An activity whose connections neither begin nor end in this step.
LEMMA CountedSame ==
  ASSUME NEW a \in Activities, Counted(a), connecting'[a] = connecting[a],
         NoneIn(queue, Reads(a)) => NoneIn(queue', Reads(a)),
         OneIn(queue, Reads(a)) => OneIn(queue', Reads(a)),
         NoneIn(posted, Results(a)) => NoneIn(posted', Results(a)),
         OneIn(posted, Results(a)) => OneIn(posted', Results(a))
  PROVE  Counted(a)'
  BY Zenon DEF Counted, Reads, Results, Read

\* onCreate, onResume and the buttons: a connection begins only where there is
\* none, and then its task is the only one.
LEMMA CountedLaunch ==
  ASSUME TypeOK, AppInv, NEW a \in Activities, Launch(a)
  PROVE  ConnectionsCounted'
<1>1. /\ queue \in Seq(Task) /\ Read(a) \in Task /\ Message(a) \in Task
      /\ connecting \in [Activities -> Nat]
  BY TaskKinds DEF TypeOK
<1>2. queue' = queue \o <<Read(a), Message(a)>>
  BY DEF Launch, Execute
<1>3. queue' = Append(Append(queue, Read(a)), Message(a))
  BY <1>1, <1>2, ConcatTwo
<1>4. /\ connecting' = [connecting EXCEPT ![a] = @ + 1] /\ posted' = posted
      /\ life[a] = "unborn"
  BY DEF Launch
<1>5. connecting[a] = 0
  BY <1>4 DEF AppInv, ViewInv, UnbornUntouched
<1> DEFINE q == Append(queue, Read(a))
<1>6. q \in Seq(Task) /\ queue' = Append(q, Message(a))
  BY <1>1, <1>3
<1>7. ASSUME NEW b \in Activities PROVE Counted(b)'
  <2>1. Counted(b) /\ Message(a) \notin Reads(b)
    BY KindsThatCount DEF AppInv, ConnectionsCounted
  <2>2. CASE b = a
    <3>1. NoneIn(queue, Reads(a)) /\ NoneIn(posted, Results(a)) /\ connecting'[a] = 1
      BY <1>1, <1>4, <1>5, <2>1, <2>2 DEF Counted
    <3>2. OneIn(q, Reads(a))
      BY <1>1, <3>1, AppendFirst, KindsThatCount
    <3>3. OneIn(queue', Reads(a))
      BY <1>1, <1>6, <2>1, <2>2, <3>2, AppendOther
    <3> QED
      BY <1>4, <2>2, <3>1, <3>3, Zenon DEF Counted, Reads, Results, Read
  <2>3. CASE b # a
    <3>1. Read(a) \notin Reads(b) /\ connecting'[b] = connecting[b]
      BY <1>1, <1>4, <2>3, KindsThatCount
    <3>2. /\ NoneIn(queue, Reads(b)) => NoneIn(q, Reads(b))
          /\ OneIn(queue, Reads(b)) => OneIn(q, Reads(b))
      BY <1>1, <3>1, AppendOther
    <3>3. /\ NoneIn(q, Reads(b)) => NoneIn(queue', Reads(b))
          /\ OneIn(q, Reads(b)) => OneIn(queue', Reads(b))
      BY <1>1, <1>6, <2>1, AppendOther
    <3> QED
      BY <1>4, <2>1, <3>1, <3>2, <3>3, CountedSame
  <2> QED
    BY <2>2, <2>3
<1> QED
  BY <1>7 DEF ConnectionsCounted

LEMMA CountedResume ==
  ASSUME TypeOK, AppInv, NEW a \in Activities, NEW saved \in BOOLEAN, Resume(a, saved)
  PROVE  ConnectionsCounted'
<1>1. /\ queue \in Seq(Task) /\ Read(a) \in Task /\ Restart(a) \in Task
      /\ connecting \in [Activities -> Nat]
  BY TaskKinds DEF TypeOK
<1> DEFINE q == IF saved THEN Append(queue, Restart(a)) ELSE queue
<1>2. q \in Seq(Task)
  BY <1>1
<1>3. queue' = IF suspending[a] THEN Append(q, Read(a)) ELSE q
  <2>1. queue' = queue \o ((IF saved THEN <<Restart(a)>> ELSE <<>>)
                             \o (IF suspending[a] THEN <<Read(a)>> ELSE <<>>))
    BY DEF Resume, Execute, Reconnects
  <2>2. /\ queue \o (<<Restart(a)>> \o <<Read(a)>>) = Append(Append(queue, Restart(a)), Read(a))
        /\ queue \o (<<>> \o <<Read(a)>>) = Append(queue, Read(a))
        /\ queue \o (<<Restart(a)>> \o <<>>) = Append(queue, Restart(a))
        /\ queue \o (<<>> \o <<>>) = queue
    BY <1>1, ConcatTasks, Zenon
  <2> QED
    BY <2>1, <2>2, Zenon
<1>4. /\ connecting' = [connecting EXCEPT ![a] = IF suspending[a] THEN @ + 1 ELSE @]
      /\ posted' = posted
  BY DEF Resume, Reconnects
<1>5. suspending[a] => connecting[a] = 0
  BY DEF AppInv, ViewInv, SuspendedAtRest
<1>6. ASSUME NEW b \in Activities PROVE Counted(b)'
  <2>1. Counted(b) /\ Restart(a) \notin Reads(b)
    BY KindsThatCount DEF AppInv, ConnectionsCounted
  <2>2. /\ NoneIn(queue, Reads(b)) => NoneIn(q, Reads(b))
        /\ OneIn(queue, Reads(b)) => OneIn(q, Reads(b))
    BY <1>1, <2>1, AppendOther
  <2>3. CASE b = a /\ suspending[a]
    <3>1. NoneIn(q, Reads(a)) /\ NoneIn(posted, Results(a)) /\ connecting'[a] = 1
      BY <1>1, <1>4, <1>5, <2>1, <2>2, <2>3 DEF Counted
    <3>2. OneIn(queue', Reads(a))
      BY <1>1, <1>2, <1>3, <2>3, <3>1, AppendFirst, KindsThatCount
    <3> QED
      BY <1>4, <2>3, <3>1, <3>2, Zenon DEF Counted, Reads, Results, Read
  <2>4. CASE ~(b = a /\ suspending[a])
    <3>1. connecting'[b] = connecting[b]
      BY <1>1, <1>4, <2>4
    <3>2. /\ NoneIn(q, Reads(b)) => NoneIn(queue', Reads(b))
          /\ OneIn(q, Reads(b)) => OneIn(queue', Reads(b))
      <4>1. CASE suspending[a]
        <5>1. Read(a) \notin Reads(b)
          BY <2>4, <4>1, KindsThatCount
        <5> QED
          BY <1>1, <1>2, <1>3, <4>1, <5>1, AppendOther
      <4>2. CASE ~suspending[a]
        BY <1>3, <4>2
      <4> QED
        BY <4>1, <4>2
    <3> QED
      BY <1>4, <2>1, <2>2, <3>1, <3>2, CountedSame
  <2> QED
    BY <2>3, <2>4
<1> QED
  BY <1>6 DEF ConnectionsCounted

LEMMA CountedPress ==
  ASSUME TypeOK, AppInv, NEW a \in Activities, PressButton(a)
  PROVE  ConnectionsCounted'
<1>1. queue \in Seq(Task) /\ Message(a) \in Task
  BY TaskKinds DEF TypeOK
<1>2. queue' = Append(queue, Message(a)) /\ posted' = posted /\ connecting' = connecting
  BY <1>1, ConcatOne DEF PressButton, Execute
<1>3. ASSUME NEW b \in Activities PROVE Counted(b)'
  <2>1. Counted(b) /\ Message(a) \notin Reads(b)
    BY KindsThatCount DEF AppInv, ConnectionsCounted
  <2>2. /\ NoneIn(queue, Reads(b)) => NoneIn(queue', Reads(b))
        /\ OneIn(queue, Reads(b)) => OneIn(queue', Reads(b))
    BY <1>1, <1>2, <2>1, AppendOther
  <2> QED
    BY <1>2, <2>1, <2>2, CountedSame
<1> QED
  BY <1>3 DEF ConnectionsCounted

\* A task ends: that of a connection turns into its result, any other into a
\* message that is none.
LEMMA CountedTask ==
  ASSUME TypeOK, AppInv, Executor \/ MessageDone
  PROVE  ConnectionsCounted'
<1>1. /\ queue \in Seq(Task) /\ posted \in Seq(Post) /\ queue # <<>>
      /\ connecting' = connecting
  BY DEF TypeOK, Executor, MessageDone, ReadDone, RestartDone, RunningTask
<1> DEFINE t == Head(queue)
<1>2. t \in Task /\ t.act \in Activities
  <2>1. t \in Task
    BY <1>1
  <2> QED
    BY <2>1 DEF Task
<1>3. PICK kind \in {"connected", "failed", "reply", "restart"} :
         /\ TaskDone(kind)
         /\ t.kind = "read" <=> kind \in {"connected", "failed"}
  BY DEF Executor, MessageDone, ReadDone, RestartDone, RunningTask
<1> DEFINE m == [kind |-> kind, act |-> t.act]
<1>4. m \in Post /\ queue' = Tail(queue) /\ posted' = Append(posted, m)
  BY <1>2, <1>3 DEF TaskDone, Post
<1>5. ASSUME NEW b \in Activities PROVE Counted(b)'
  <2>1. Counted(b)
    BY DEF AppInv, ConnectionsCounted
  <2>2. t \in Reads(b) <=> m \in Results(b)
    BY <1>2, <1>3 DEF Reads, Results, Read, Task
  <2>3. CASE t \in Reads(b)
    <3>1. 1 \in 1..Len(queue) /\ queue[1] = t
      BY <1>1
    <3>2. ~NoneIn(queue, Reads(b))
      BY <2>3, <3>1 DEF NoneIn
    <3>3. connecting[b] = 1 /\ OneIn(queue, Reads(b)) /\ NoneIn(posted, Results(b))
      BY <2>1, <3>2 DEF Counted
    <3>4. NoneIn(queue', Reads(b))
      BY <1>1, <1>4, <2>3, <3>3, OneInTailOut
    <3>5. OneIn(posted', Results(b))
      BY <1>1, <1>4, <2>2, <2>3, <3>3, AppendFirst
    <3> QED
      BY <1>1, <3>3, <3>4, <3>5, Zenon DEF Counted, Reads, Results, Read
  <2>4. CASE t \notin Reads(b)
    <3>1. /\ NoneIn(queue, Reads(b)) => NoneIn(queue', Reads(b))
          /\ OneIn(queue, Reads(b)) => OneIn(queue', Reads(b))
      BY <1>1, <1>4, <2>4, NoneInTail, OneInTailStays
    <3>2. /\ NoneIn(posted, Results(b)) => NoneIn(posted', Results(b))
          /\ OneIn(posted, Results(b)) => OneIn(posted', Results(b))
      BY <1>1, <1>4, <2>2, <2>4, AppendOther
    <3> QED
      BY <1>1, <2>1, <3>1, <3>2, CountedSame
  <2> QED
    BY <2>3, <2>4
<1> QED
  BY <1>5 DEF ConnectionsCounted

\* A message is handled: with its result a connection is over.
LEMMA CountedPost ==
  ASSUME TypeOK, AppInv, Connected \/ Failed \/ OtherPost
  PROVE  ConnectionsCounted'
<1>1. /\ posted \in Seq(Post) /\ posted # <<>> /\ posted' = Tail(posted)
      /\ queue' = queue /\ connecting \in [Activities -> Nat]
  BY DEF TypeOK, Connected, Failed, OtherPost, IsPosted
<1> DEFINE m == Head(posted)
<1>2. m \in Post /\ m.act \in Activities
  <2>1. m \in Post
    BY <1>1
  <2> QED
    BY <2>1 DEF Post
<1>3. CASE Connected \/ Failed
  <2>1. connecting' = [connecting EXCEPT ![m.act] = @ - 1] /\ m.kind \in {"connected", "failed"}
    BY <1>3 DEF Connected, Failed, IsPosted
  <2>2. connecting[m.act] = 1 /\ m \in Results(m.act)
    BY <1>1, <2>1, ResultArrives DEF AppInv
  <2>3. ASSUME NEW b \in Activities PROVE Counted(b)'
    <3>1. Counted(b)
      BY DEF AppInv, ConnectionsCounted
    <3>2. CASE b = m.act
      <4>1. 1 \in 1..Len(posted) /\ posted[1] = m
        BY <1>1
      <4>2. ~NoneIn(posted, Results(b))
        BY <2>2, <3>2, <4>1 DEF NoneIn
      <4>3. OneIn(posted, Results(b)) /\ NoneIn(queue, Reads(b))
        BY <3>1, <4>2 DEF Counted
      <4>4. NoneIn(posted', Results(b))
        BY <1>1, <2>2, <3>2, <4>3, OneInTailOut
      <4>5. connecting'[b] = 0
        BY <1>1, <2>1, <2>2, <3>2
      <4> QED
        BY <1>1, <4>3, <4>4, <4>5, Zenon DEF Counted, Reads, Results, Read
    <3>3. CASE b # m.act
      <4>1. m \notin Results(b) /\ connecting'[b] = connecting[b]
        BY <1>1, <1>2, <2>1, <3>3 DEF Results
      <4>2. /\ NoneIn(posted, Results(b)) => NoneIn(posted', Results(b))
            /\ OneIn(posted, Results(b)) => OneIn(posted', Results(b))
        BY <1>1, <4>1, NoneInTail, OneInTailStays
      <4> QED
        BY <1>1, <3>1, <4>1, <4>2, CountedSame
    <3> QED
      BY <3>2, <3>3
  <2> QED
    BY <2>3 DEF ConnectionsCounted
<1>4. CASE OtherPost
  <2>1. connecting' = connecting /\ m.kind \notin {"connected", "failed"}
    BY <1>4 DEF OtherPost
  <2>2. ASSUME NEW b \in Activities PROVE Counted(b)'
    <3>1. Counted(b) /\ m \notin Results(b)
      BY <2>1 DEF AppInv, ConnectionsCounted, Results
    <3>2. /\ NoneIn(posted, Results(b)) => NoneIn(posted', Results(b))
          /\ OneIn(posted, Results(b)) => OneIn(posted', Results(b))
      BY <1>1, <3>1, NoneInTail, OneInTailStays
    <3> QED
      BY <1>1, <2>1, <3>1, <3>2, CountedSame
  <2> QED
    BY <2>2 DEF ConnectionsCounted
<1> QED
  BY <1>3, <1>4

\* A view's thread may post a message that is no result.
LEMMA CountedThread ==
  ASSUME TypeOK, AppInv, NEW a \in Activities, ViewThread(a)
  PROVE  ConnectionsCounted'
<1> DEFINE m == [kind |-> "imageerror", act |-> a]
<1>1. /\ posted \in Seq(Post) /\ m \in Post
      /\ UNCHANGED <<queue, connecting>>
      /\ posted' = posted \/ posted' = Append(posted, m)
  BY DEF TypeOK, Post, ViewThread, ThreadLoop, ThreadRead, ThreadNative, taskVars
<1>2. ASSUME NEW b \in Activities PROVE Counted(b)'
  <2>1. Counted(b) /\ m \notin Results(b)
    BY DEF AppInv, ConnectionsCounted, Results
  <2>2. /\ NoneIn(posted, Results(b)) => NoneIn(posted', Results(b))
        /\ OneIn(posted, Results(b)) => OneIn(posted', Results(b))
    BY <1>1, <2>1, AppendOther
  <2> QED
    BY <1>1, <2>1, <2>2, CountedSame
<1> QED
  BY <1>2 DEF ConnectionsCounted

-----------------------------------------------------------------------------
(* Views, their threads and the activities they belong to. *)

\* What the invariant of the views is about.
shownVars == <<connecting, mIn, mRun, ui, life, late, suspending, title, freedInUse>>

\* Steps that move at most a view's thread on, or an activity's title off.
LEMMA ViewFrame ==
  ASSUME ViewInv, UNCHANGED <<shownVars, thread>>
  PROVE  ViewInv'
  BY DEF ViewInv, StreamOfThread, WaitsFor, SuspendedAtRest, UnbornUntouched,
         OneResumed, Resumed, PlaysResumed, TitleTraced, shownVars, Free

LEMMA ViewThreadStep ==
  ASSUME TypeOK, ViewInv, NEW a \in Activities, ViewThread(a)
  PROVE  ViewInv'
<1>1. UNCHANGED shownVars
  BY DEF ViewThread, ThreadLoop, ThreadRead, ThreadNative, activityVars, taskVars,
         nativeVars, shownVars
<1>2. /\ thread \in [Activities -> ThreadState]
      /\ \/ thread' = thread
         \/ /\ thread[a] \notin {"new", "null"}
            /\ \E l \in Running \cup {"ended"} : thread' = [thread EXCEPT ![a] = l]
  BY DEF TypeOK, ViewThread, ThreadLoop, ThreadRead, ThreadNative, ThreadAt, ThreadGoTo,
         Running
<1>3. \A b \in Activities : thread'[b] \in {"new", "null"} <=> thread[b] \in {"new", "null"}
  BY <1>2 DEF Running
<1>4. StreamOfThread'
  BY <1>1, <1>3 DEF ViewInv, StreamOfThread, shownVars
<1> QED
  BY <1>1, <1>4 DEF ViewInv, WaitsFor, SuspendedAtRest, UnbornUntouched,
     OneResumed, Resumed, PlaysResumed, TitleTraced, shownVars, Free

LEMMA ViewOtherPost ==
  ASSUME TypeOK, ViewInv, OtherPost
  PROVE  ViewInv'
<1>1. UNCHANGED <<connecting, mIn, mRun, thread, ui, life, late, suspending, freedInUse>>
  BY DEF OtherPost, viewVars, nativeVars
<1>2. \A b \in Activities : title'[b] = "app_name" => title[b] = "app_name"
  BY DEF OtherPost, TypeOK
<1>3. TitleTraced'
  BY <1>1, <1>2 DEF ViewInv, TitleTraced
<1> QED
  BY <1>1, <1>3 DEF ViewInv, StreamOfThread, WaitsFor, SuspendedAtRest, UnbornUntouched,
     OneResumed, Resumed, PlaysResumed, Free

\* The UI thread waits for nobody who is not an activity.
LEMMA WaitsForActivity ==
  ASSUME TypeOK, WaitsFor
  PROVE  /\ ui = Free <=> ui.act \notin Activities
         /\ ui # Free => ui.act \in Activities /\ ui.op \in {"pause", "surface"}
<1>1. late \subseteq Activities
  BY DEF TypeOK
<1>2. ui = Free => ui.act \notin Activities
  BY ActivityAssumption DEF Free
<1>3. ui # Free => ui.act \in Activities /\ ui.op \in {"pause", "surface"}
  BY <1>1 DEF WaitsFor
<1> QED
  BY <1>2, <1>3

\* onCreate: a connection where nothing was, and a resumed activity where
\* there was none.
LEMMA ViewLaunch ==
  ASSUME TypeOK, ViewInv, NEW a \in Activities, Launch(a)
  PROVE  ViewInv'
<1>1. /\ life \in [Activities -> {"unborn", "resumed", "paused", "destroyed"}]
      /\ connecting \in [Activities -> Nat]
  BY DEF TypeOK
<1>2. /\ ui = Free /\ life[a] = "unborn" /\ Resumed = {}
      /\ life' = [life EXCEPT ![a] = "resumed"]
      /\ connecting' = [connecting EXCEPT ![a] = @ + 1]
      /\ UNCHANGED <<mIn, mRun, thread, ui, late, suspending, title, freedInUse>>
  BY DEF Launch, UiFree, viewVars, nativeVars
<1>3. ~mIn[a] /\ connecting[a] = 0 /\ ~suspending[a]
  BY <1>2 DEF ViewInv, UnbornUntouched, SuspendedAtRest
<1>4. \A b \in Activities : b # a => life'[b] = life[b] /\ connecting'[b] = connecting[b]
  BY <1>1, <1>2
<1>5. life'[a] = "resumed" /\ connecting'[a] = 1
  BY <1>1, <1>2, <1>3
<1>6. StreamOfThread'
  BY <1>2, <1>3, <1>4 DEF ViewInv, StreamOfThread
<1>7. WaitsFor'
  BY <1>2 DEF WaitsFor, Free
<1>8. SuspendedAtRest' /\ UnbornUntouched'
  BY <1>2, <1>3, <1>4, <1>5 DEF ViewInv, SuspendedAtRest, UnbornUntouched
<1>9. OneResumed'
  BY <1>2, <1>4 DEF OneResumed, Resumed
<1>10. PlaysResumed'
  BY <1>2, <1>4, <1>5 DEF ViewInv, PlaysResumed
<1>11. TitleTraced'
  BY <1>2, <1>4, <1>5 DEF ViewInv, TitleTraced
<1> QED
  BY <1>2, <1>6, <1>7, <1>8, <1>9, <1>10, <1>11 DEF ViewInv

\* onResume: the connection that onPause remembered.
LEMMA ViewResume ==
  ASSUME TypeOK, ViewInv, NEW a \in Activities, NEW saved \in BOOLEAN, Resume(a, saved)
  PROVE  ViewInv'
<1>1. /\ life \in [Activities -> {"unborn", "resumed", "paused", "destroyed"}]
      /\ connecting \in [Activities -> Nat]
      /\ suspending \in [Activities -> BOOLEAN]
  BY DEF TypeOK
<1>2. /\ ui = Free /\ life[a] = "paused" /\ Resumed = {}
      /\ life' = [life EXCEPT ![a] = "resumed"]
      /\ connecting' = [connecting EXCEPT ![a] = IF suspending[a] THEN @ + 1 ELSE @]
      /\ suspending' = [suspending EXCEPT ![a] = FALSE]
      /\ UNCHANGED <<mIn, mRun, thread, ui, late, title, freedInUse>>
  BY DEF Resume, Reconnects, UiFree, viewVars, nativeVars
<1>3. suspending[a] => ~mIn[a] /\ connecting[a] = 0
  BY DEF ViewInv, SuspendedAtRest
<1>4. \A b \in Activities : b # a =>
        life'[b] = life[b] /\ connecting'[b] = connecting[b] /\ suspending'[b] = suspending[b]
  BY <1>1, <1>2
<1>5. /\ life'[a] = "resumed" /\ ~suspending'[a]
      /\ suspending[a] => connecting'[a] = 1
      /\ ~suspending[a] => connecting'[a] = connecting[a]
  BY <1>1, <1>2, <1>3
<1>6. StreamOfThread'
  BY <1>2, <1>3, <1>4, <1>5 DEF ViewInv, StreamOfThread
<1>7. WaitsFor'
  BY <1>2 DEF WaitsFor, Free
<1>8. SuspendedAtRest' /\ UnbornUntouched'
  BY <1>2, <1>4, <1>5 DEF ViewInv, SuspendedAtRest, UnbornUntouched
<1>9. OneResumed'
  BY <1>2, <1>4 DEF OneResumed, Resumed
<1>10. PlaysResumed'
  BY <1>2, <1>4, <1>5 DEF ViewInv, PlaysResumed
<1>11. TitleTraced'
  BY <1>2, <1>4, <1>5 DEF ViewInv, TitleTraced
<1> QED
  BY <1>2, <1>6, <1>7, <1>8, <1>9, <1>10, <1>11 DEF ViewInv

\* onDestroy frees the buffer only if the view plays, which it does for a late
\* connection only.
LEMMA ViewDestroy ==
  ASSUME TypeOK, ViewInv, NEW a \in Activities, Destroy(a)
  PROVE  ViewInv' /\ (mIn[a] => a \in late)
<1>1. life \in [Activities -> {"unborn", "resumed", "paused", "destroyed"}]
  BY DEF TypeOK
<1>2. /\ ui = Free /\ life[a] = "paused"
      /\ life' = [life EXCEPT ![a] = "destroyed"]
      /\ UNCHANGED <<connecting, mIn, mRun, thread, ui, late, suspending, title>>
      /\ freedInUse' => freedInUse \/ mIn[a]
  BY DEF Destroy, FreesBuffer, UiFree, viewVars, taskVars
<1>3. ui.act \notin Activities
  BY <1>2, ActivityAssumption DEF Free
<1>4. mIn[a] => a \in late
  BY <1>2, <1>3 DEF ViewInv, StreamOfThread, PlaysResumed
<1>5. \A b \in Activities : b # a => life'[b] = life[b]
  BY <1>1, <1>2
<1>6. life'[a] = "destroyed"
  BY <1>1, <1>2
<1>7. StreamOfThread' /\ WaitsFor' /\ TitleTraced'
  BY <1>2 DEF ViewInv, StreamOfThread, WaitsFor, Free, TitleTraced
<1>8. SuspendedAtRest' /\ UnbornUntouched'
  BY <1>2, <1>5, <1>6 DEF ViewInv, SuspendedAtRest, UnbornUntouched
<1>9. OneResumed'
  BY <1>5, <1>6 DEF ViewInv, OneResumed, Resumed
<1>10. PlaysResumed'
  BY <1>2, <1>5, <1>6 DEF ViewInv, PlaysResumed
<1> QED
  BY <1>2, <1>4, <1>7, <1>8, <1>9, <1>10 DEF ViewInv

\* The first half of stopPlayback: the view is at rest, or the UI thread waits
\* for its thread, which still has its stream.
LEMMA StopOutcome ==
  ASSUME TypeOK, ViewInv, ui = Free, NEW a \in Activities, NEW op \in {"pause", "surface"},
         StopBegin(a, op), connecting' = connecting
  PROVE  /\ StreamOfThread'
         /\ ~mRun'[a]
         /\ \A b \in Activities : b # a => mRun'[b] = mRun[b] /\ mIn'[b] = mIn[b]
         /\ \/ ui' = Free /\ ~mIn'[a] /\ ~StopsThread(a)
            \/ ui' = [op |-> op, act |-> a] /\ StopsThread(a) /\ mIn[a] /\ mRun[a]
<1>1. /\ mRun \in [Activities -> BOOLEAN] /\ mIn \in [Activities -> BOOLEAN]
      /\ thread \in [Activities -> ThreadState]
  BY DEF TypeOK
<1>2. ui.act \notin Activities
  BY ActivityAssumption DEF Free
<1>3. mRun' = [mRun EXCEPT ![a] = FALSE]
  BY DEF StopBegin
<1>4. \A b \in Activities : b # a => mRun'[b] = mRun[b]
  BY <1>1, <1>3
<1>5. ~mRun'[a]
  BY <1>1, <1>3
<1>6. CASE StopsThread(a)
  <2>1. ui' = [op |-> op, act |-> a] /\ UNCHANGED <<thread, mIn>>
    BY <1>6 DEF StopBegin
  <2>2. mIn[a] /\ mRun[a]
    BY <1>2, <1>6 DEF StopsThread, Running, ViewInv, StreamOfThread
  <2>3. StreamOfThread'
    BY <1>2, <1>4, <1>5, <2>1, <2>2 DEF ViewInv, StreamOfThread
  <2> QED
    BY <1>4, <1>5, <1>6, <2>1, <2>2, <2>3
<1>7. CASE ~StopsThread(a)
  <2>1. /\ ui' = ui /\ thread' = [thread EXCEPT ![a] = "null"]
        /\ mIn' = [mIn EXCEPT ![a] = FALSE]
    BY <1>7 DEF StopBegin, Stopped
  <2>2. /\ ~mIn'[a] /\ thread'[a] = "null"
        /\ \A b \in Activities : b # a => mIn'[b] = mIn[b] /\ thread'[b] = thread[b]
    BY <1>1, <2>1
  <2>3. StreamOfThread'
    BY <1>2, <1>4, <1>5, <2>1, <2>2 DEF ViewInv, StreamOfThread
  <2> QED
    BY <1>4, <1>5, <1>7, <2>1, <2>2, <2>3
<1> QED
  BY <1>6, <1>7

\* onPause: an activity that plays is stopped and will reconnect.
LEMMA ViewPause ==
  ASSUME TypeOK, ViewInv, NEW a \in Activities, Pause(a)
  PROVE  ViewInv'
<1>1. /\ life \in [Activities -> {"unborn", "resumed", "paused", "destroyed"}]
      /\ suspending \in [Activities -> BOOLEAN]
  BY DEF TypeOK
<1>2. /\ ui = Free /\ life[a] = "resumed"
      /\ life' = [life EXCEPT ![a] = "paused"]
      /\ UNCHANGED <<connecting, late, title, freedInUse>>
  BY DEF Pause, UiFree, taskVars, nativeVars
<1>3. life'[a] = "paused" /\ \A b \in Activities : b # a => life'[b] = life[b]
  BY <1>1, <1>2
<1>4. Resumed' = {}
  BY <1>2, <1>3 DEF ViewInv, OneResumed, Resumed
<1>6. ~suspending[a]
  BY <1>2 DEF ViewInv, SuspendedAtRest
<1>7. CASE ~mRun[a]
  <2>1. UNCHANGED <<ui, suspending, mRun, thread, mIn>>
    BY <1>7 DEF Pause
  <2>2. StreamOfThread' /\ TitleTraced'
    BY <1>2, <2>1 DEF ViewInv, StreamOfThread, TitleTraced
  <2>3. WaitsFor' /\ OneResumed'
    BY <1>2, <1>4, <2>1 DEF WaitsFor, OneResumed, Free
  <2>4. SuspendedAtRest' /\ UnbornUntouched'
    BY <1>2, <1>3, <2>1 DEF ViewInv, SuspendedAtRest, UnbornUntouched
  <2>5. PlaysResumed'
    BY <1>2, <1>3, <1>7, <2>1 DEF ViewInv, PlaysResumed
  <2> QED
    BY <1>2, <2>2, <2>3, <2>4, <2>5 DEF ViewInv
<1>8. CASE mRun[a]
  <2>1. /\ StopBegin(a, "pause")
        /\ suspending' = [suspending EXCEPT ![a] = suspending[a] \/ ~StopsThread(a)]
    BY <1>8 DEF Pause
  <2>2. \A b \in Activities : b # a => suspending'[b] = suspending[b]
    BY <1>1, <2>1
  <2>3. suspending'[a] <=> ~StopsThread(a)
    <3>1. suspending'[a] = (suspending[a] \/ ~StopsThread(a))
      BY <1>1, <2>1, Zenon
    <3> QED
      BY <1>6, <3>1, Zenon
  <2>4. connecting[a] = 0
    BY <1>8 DEF ViewInv, StreamOfThread
  <2>5. /\ StreamOfThread'
        /\ ~mRun'[a]
        /\ \A b \in Activities : b # a => mRun'[b] = mRun[b] /\ mIn'[b] = mIn[b]
        /\ \/ ui' = Free /\ ~mIn'[a] /\ ~StopsThread(a)
           \/ ui' = [op |-> "pause", act |-> a] /\ StopsThread(a) /\ mIn[a] /\ mRun[a]
    BY <1>2, <2>1, StopOutcome
  <2>6. WaitsFor'
    BY <1>3, <1>4, <2>5 DEF WaitsFor
  <2>7. SuspendedAtRest'
    BY <1>2, <1>3, <2>2, <2>3, <2>4, <2>5 DEF ViewInv, SuspendedAtRest
  <2>8. UnbornUntouched'
    BY <1>2, <1>3, <2>5 DEF ViewInv, UnbornUntouched
  <2>9. OneResumed' /\ PlaysResumed'
    BY <1>2, <1>3, <1>4, <2>5 DEF ViewInv, OneResumed, PlaysResumed
  <2>10. TitleTraced'
    BY <1>2, <2>2, <2>3, <2>5 DEF ViewInv, TitleTraced, Free
  <2> QED
    BY <1>2, <2>5, <2>6, <2>7, <2>8, <2>9, <2>10 DEF ViewInv
<1> QED
  BY <1>7, <1>8

\* surfaceDestroyed: a view that plays then plays for a late connection.
LEMMA ViewSurface ==
  ASSUME TypeOK, ViewInv, NEW a \in Activities, SurfaceDestroyed(a)
  PROVE  ViewInv'
<1>1. /\ ui = Free /\ life[a] \in {"paused", "destroyed"}
      /\ StopBegin(a, "surface")
      /\ UNCHANGED <<connecting, life, late, title, suspending, freedInUse>>
  BY DEF SurfaceDestroyed, UiFree, activityVars, taskVars, nativeVars
<1>2. /\ StreamOfThread'
      /\ ~mRun'[a]
      /\ \A b \in Activities : b # a => mRun'[b] = mRun[b] /\ mIn'[b] = mIn[b]
      /\ \/ ui' = Free /\ ~mIn'[a] /\ ~StopsThread(a)
         \/ ui' = [op |-> "surface", act |-> a] /\ StopsThread(a) /\ mIn[a] /\ mRun[a]
  BY <1>1, StopOutcome
<1>3. mRun[a] => a \in late
  BY <1>1 DEF ViewInv, PlaysResumed
<1>4. WaitsFor'
  BY <1>1, <1>2, <1>3 DEF WaitsFor
<1>5. suspending[a] => ~StopsThread(a)
  BY DEF ViewInv, SuspendedAtRest, StreamOfThread, StopsThread, Running
<1>6. SuspendedAtRest'
  BY <1>1, <1>2, <1>5 DEF ViewInv, SuspendedAtRest
<1>7. UnbornUntouched' /\ OneResumed' /\ PlaysResumed'
  BY <1>1, <1>2 DEF ViewInv, UnbornUntouched, OneResumed, Resumed, PlaysResumed
<1>8. TitleTraced'
  <2> SUFFICES ASSUME NEW b \in Activities, title'[b] = "app_name"
               PROVE  \/ mRun'[b] \/ connecting'[b] = 1 \/ suspending'[b] \/ b \in late'
                      \/ ui' = [op |-> "pause", act |-> b]
    BY DEF TitleTraced
  <2>1. mRun[b] \/ connecting[b] = 1 \/ suspending[b] \/ b \in late
    BY <1>1 DEF ViewInv, TitleTraced, Free
  <2> QED
    BY <1>1, <1>2, <1>3, <2>1
<1> QED
  BY <1>1, <1>2, <1>4, <1>6, <1>7, <1>8 DEF ViewInv

\* join returns: the view is at rest, and if it was onPause that waited, the
\* activity will reconnect.
LEMMA ViewJoin ==
  ASSUME TypeOK, ViewInv, JoinReturns
  PROVE  ViewInv'
<1> DEFINE a == ui.act
<1>1. a \in Activities /\ ui.op \in {"pause", "surface"}
  BY WaitsForActivity DEF ViewInv, JoinReturns
<1>2. /\ mIn \in [Activities -> BOOLEAN] /\ thread \in [Activities -> ThreadState]
      /\ suspending \in [Activities -> BOOLEAN]
  BY DEF TypeOK
<1>3. /\ ui # Free /\ ui' = Free
      /\ thread' = [thread EXCEPT ![a] = "null"]
      /\ mIn' = [mIn EXCEPT ![a] = FALSE]
      /\ suspending' = [suspending EXCEPT ![a] = suspending[a] \/ ui.op = "pause"]
      /\ UNCHANGED <<connecting, life, mRun, late, title, freedInUse>>
  BY DEF JoinReturns, Stopped, taskVars, nativeVars
<1>4. Free.act \notin Activities
  BY ActivityAssumption DEF Free
<1>5. mIn[a] /\ connecting[a] = 0
  BY <1>1 DEF ViewInv, StreamOfThread
<1>6. ~mRun[a]
  BY <1>1 DEF ViewInv, StreamOfThread
<1>7. /\ ~mIn'[a] /\ thread'[a] = "null"
      /\ \A b \in Activities : b # a =>
            mIn'[b] = mIn[b] /\ thread'[b] = thread[b] /\ suspending'[b] = suspending[b]
  BY <1>1, <1>2, <1>3
<1>8. suspending'[a] <=> suspending[a] \/ ui.op = "pause"
  <2>1. suspending'[a] = (suspending[a] \/ ui.op = "pause")
    BY <1>1, <1>2, <1>3, Zenon
  <2> QED
    BY <2>1, Zenon
<1>9. StreamOfThread'
  BY <1>1, <1>3, <1>4, <1>6, <1>7 DEF ViewInv, StreamOfThread
<1>10. WaitsFor'
  BY <1>3 DEF WaitsFor
<1>11. life[a] \in {"paused", "destroyed"}
  BY <1>3 DEF ViewInv, WaitsFor
<1>12. SuspendedAtRest'
  BY <1>1, <1>3, <1>5, <1>7, <1>11 DEF ViewInv, SuspendedAtRest
<1>13. UnbornUntouched' /\ OneResumed' /\ PlaysResumed'
  BY <1>3, <1>7, <1>11 DEF ViewInv, UnbornUntouched, OneResumed, Resumed, PlaysResumed
<1>14. TitleTraced'
  <2> SUFFICES ASSUME NEW b \in Activities, title'[b] = "app_name"
               PROVE  mRun[b] \/ connecting[b] = 1 \/ suspending'[b] \/ b \in late
    BY <1>3 DEF TitleTraced
  <2>1. \/ mRun[b] \/ connecting[b] = 1 \/ suspending[b] \/ b \in late
        \/ ui = [op |-> "pause", act |-> b]
    BY <1>3 DEF ViewInv, TitleTraced
  <2>2. ui = [op |-> "pause", act |-> b] => b = a /\ suspending'[b]
    BY <1>8
  <2>3. suspending[b] => suspending'[b]
    BY <1>7, <1>8
  <2> QED
    BY <2>1, <2>2, <2>3
<1> QED
  BY <1>3, <1>9, <1>10, <1>12, <1>13, <1>14 DEF ViewInv

\* A connection comes up: there is no stream and no thread, so setSource throws
\* nothing away and starts the thread.
LEMMA ViewConnected ==
  ASSUME TypeOK, AppInv, Connected
  PROVE  ViewInv'
<1> DEFINE a == Head(posted).act
<1>0. posted # <<>> /\ Head(posted).kind = "connected"
  BY DEF Connected, IsPosted
<1>1. a \in Activities /\ connecting[a] = 1
  BY <1>0, ResultArrives DEF AppInv
<1>2. /\ mIn \in [Activities -> BOOLEAN] /\ mRun \in [Activities -> BOOLEAN]
      /\ connecting \in [Activities -> Nat] /\ thread \in [Activities -> ThreadState]
      /\ title \in [Activities -> {"connecting", "app_name", "disconnected", "imageerror"}]
  BY DEF TypeOK
<1>3. ~mIn[a] /\ ~suspending[a] /\ life[a] # "unborn" /\ thread[a] \in {"new", "null"}
  BY <1>1 DEF AppInv, ViewInv, StreamOfThread, SuspendedAtRest, UnbornUntouched
<1>4. /\ ui = Free
      /\ mIn' = [mIn EXCEPT ![a] = TRUE]
      /\ mRun' = [mRun EXCEPT ![a] = TRUE]
      /\ thread' = [thread EXCEPT ![a] = "loop"]
      /\ connecting' = [connecting EXCEPT ![a] = @ - 1]
      /\ late' = IF life[a] = "resumed" THEN late ELSE late \cup {a}
      /\ UNCHANGED <<ui, life, suspending, freedInUse>>
  BY <1>3 DEF Connected, IsPosted, UiFree, SetSource, nativeVars
<1>5. /\ mIn'[a] /\ mRun'[a] /\ thread'[a] = "loop" /\ connecting'[a] = 0
      /\ \A b \in Activities : b # a =>
            /\ mIn'[b] = mIn[b] /\ mRun'[b] = mRun[b] /\ thread'[b] = thread[b]
            /\ connecting'[b] = connecting[b]
  BY <1>1, <1>2, <1>4
<1>6. \A b \in Activities : b # a => title'[b] = title[b]
  BY <1>2 DEF Connected
<1>7. ui.act \notin Activities
  BY <1>4, ActivityAssumption DEF Free
<1>8. StreamOfThread'
  BY <1>1, <1>4, <1>5, <1>7 DEF AppInv, ViewInv, StreamOfThread
<1>9. WaitsFor'
  BY <1>4 DEF WaitsFor
<1>10. SuspendedAtRest' /\ UnbornUntouched'
  BY <1>3, <1>4, <1>5 DEF AppInv, ViewInv, SuspendedAtRest, UnbornUntouched
<1>11. OneResumed'
  BY <1>4 DEF AppInv, ViewInv, OneResumed, Resumed
<1>12. PlaysResumed'
  BY <1>4, <1>5 DEF AppInv, ViewInv, PlaysResumed
<1>13. TitleTraced'
  BY <1>4, <1>5, <1>6 DEF AppInv, ViewInv, TitleTraced, Free
<1>14. freedInUse' => late' # {}
  BY <1>4 DEF AppInv, ViewInv
<1> QED
  BY <1>8, <1>9, <1>10, <1>11, <1>12, <1>13, <1>14 DEF ViewInv

\* A connection fails: the stream it takes away was not there.
LEMMA ViewFailed ==
  ASSUME TypeOK, AppInv, Failed
  PROVE  ViewInv'
<1> DEFINE a == Head(posted).act
<1>0. posted # <<>> /\ Head(posted).kind = "failed"
  BY DEF Failed, IsPosted
<1>1. a \in Activities /\ connecting[a] = 1
  BY <1>0, ResultArrives DEF AppInv
<1>2. /\ mIn \in [Activities -> BOOLEAN]
      /\ connecting \in [Activities -> Nat]
      /\ title \in [Activities -> {"connecting", "app_name", "disconnected", "imageerror"}]
  BY DEF TypeOK
<1>3. ~mIn[a] /\ ~suspending[a] /\ life[a] # "unborn"
  BY <1>1 DEF AppInv, ViewInv, StreamOfThread, SuspendedAtRest, UnbornUntouched
<1>4. /\ mIn' = [mIn EXCEPT ![a] = FALSE]
      /\ title' = [title EXCEPT ![a] = "disconnected"]
      /\ connecting' = [connecting EXCEPT ![a] = @ - 1]
      /\ UNCHANGED <<ui, life, mRun, thread, late, suspending, freedInUse>>
  BY DEF Failed, nativeVars
<1>5. /\ ~mIn'[a] /\ connecting'[a] = 0 /\ title'[a] = "disconnected"
      /\ \A b \in Activities : b # a =>
            mIn'[b] = mIn[b] /\ connecting'[b] = connecting[b] /\ title'[b] = title[b]
  BY <1>1, <1>2, <1>4
<1>6. StreamOfThread'
  BY <1>3, <1>4, <1>5 DEF AppInv, ViewInv, StreamOfThread
<1>7. WaitsFor' /\ OneResumed' /\ PlaysResumed'
  BY <1>4 DEF AppInv, ViewInv, WaitsFor, OneResumed, Resumed, PlaysResumed, Free
<1>8. SuspendedAtRest' /\ UnbornUntouched'
  BY <1>3, <1>4, <1>5 DEF AppInv, ViewInv, SuspendedAtRest, UnbornUntouched
<1>9. TitleTraced'
  BY <1>4, <1>5 DEF AppInv, ViewInv, TitleTraced
<1> QED
  BY <1>4, <1>6, <1>7, <1>8, <1>9 DEF AppInv, ViewInv

-----------------------------------------------------------------------------
(* The theorems. *)

\* Nothing was asked for at the start.
LEMMA AppInvInit == Init => AppInv
<1> SUFFICES ASSUME Init PROVE AppInv
  OBVIOUS
<1>0. \A K : NoneIn(<< >>, K)
  BY DEF NoneIn
<1>1. \A a \in Activities : Counted(a)
  BY <1>0 DEF Init, Counted
<1>2. /\ ui = Free /\ late = {} /\ ~freedInUse
      /\ \A a \in Activities : /\ ~mIn[a] /\ ~mRun[a] /\ ~suspending[a]
                               /\ thread[a] = "new" /\ life[a] = "unborn"
                               /\ connecting[a] = 0 /\ title[a] = "connecting"
  BY DEF Init
<1>3. ui.act \notin Activities
  BY <1>2, ActivityAssumption DEF Free
<1>4. StreamOfThread /\ WaitsFor /\ SuspendedAtRest /\ UnbornUntouched
  BY <1>2, <1>3 DEF StreamOfThread, WaitsFor, SuspendedAtRest, UnbornUntouched
<1>5. OneResumed /\ PlaysResumed /\ TitleTraced
  BY <1>2 DEF OneResumed, Resumed, PlaysResumed, TitleTraced
<1> QED
  BY <1>1, <1>2, <1>4, <1>5 DEF AppInv, ConnectionsCounted, ViewInv

\* Every step keeps the count of connections.
LEMMA CountedNext ==
  ASSUME TypeOK, AppInv, Next
  PROVE  ConnectionsCounted'
<1>1. CASE Android
  <2>1. CASE \E a \in Activities : Launch(a) \/ PressButton(a)
                                   \/ \E saved \in BOOLEAN : Resume(a, saved)
    BY <2>1, CountedLaunch, CountedPress, CountedResume
  <2>2. CASE Reopen \/ \E a \in Activities : Pause(a) \/ Destroy(a)
                                   \/ SurfaceCreated(a) \/ SurfaceDestroyed(a)
    <3>1. UNCHANGED taskVars
      BY <2>2 DEF Reopen, Pause, Destroy, SurfaceCreated, SurfaceDestroyed
    <3> QED
      BY <3>1, CountedFrame DEF AppInv
  <2> QED
    BY <1>1, <2>1, <2>2 DEF Android
<1>2. CASE JoinReturns
  BY <1>2, CountedFrame DEF AppInv, JoinReturns
<1>3. CASE Connected \/ Failed \/ OtherPost
  BY <1>3, CountedPost
<1>4. CASE Executor \/ MessageDone
  BY <1>4, CountedTask
<1>5. CASE \E a \in Activities : ViewThread(a)
  BY <1>5, CountedThread
<1> QED
  BY <1>1, <1>2, <1>3, <1>4, <1>5 DEF Next, Ui

\* Every step keeps what is known of the views.
LEMMA ViewNext ==
  ASSUME TypeOK, AppInv, Next
  PROVE  ViewInv'
<1>1. CASE Android
  <2>1. CASE \E a \in Activities : Launch(a) \/ Pause(a) \/ Destroy(a)
                \/ SurfaceDestroyed(a) \/ \E saved \in BOOLEAN : Resume(a, saved)
    BY <2>1, ViewLaunch, ViewPause, ViewDestroy, ViewSurface, ViewResume DEF AppInv
  <2>2. CASE Reopen \/ \E a \in Activities : SurfaceCreated(a) \/ PressButton(a)
    <3>1. UNCHANGED <<shownVars, thread>>
      BY <2>2 DEF Reopen, SurfaceCreated, PressButton, activityVars, viewVars,
         taskVars, nativeVars, shownVars
    <3> QED
      BY <3>1, ViewFrame DEF AppInv
  <2> QED
    BY <1>1, <2>1, <2>2 DEF Android
<1>2. CASE Ui
  BY <1>2, ViewJoin, ViewConnected, ViewFailed, ViewOtherPost DEF Ui, AppInv
<1>3. CASE Executor \/ MessageDone
  <2>1. UNCHANGED <<shownVars, thread>>
    BY <1>3 DEF Executor, ReadDone, RestartDone, MessageDone, activityVars, viewVars,
       nativeVars, shownVars
  <2> QED
    BY <2>1, ViewFrame DEF AppInv
<1>4. CASE \E a \in Activities : ViewThread(a)
  BY <1>4, ViewThreadStep DEF AppInv
<1> QED
  BY <1>1, <1>2, <1>3, <1>4 DEF Next

LEMMA AppInvNext == TypeOK /\ AppInv /\ [Next]_vars => AppInv'
<1> SUFFICES ASSUME TypeOK, AppInv, [Next]_vars PROVE AppInv'
  OBVIOUS
<1>1. CASE Next
  BY <1>1, CountedNext, ViewNext DEF AppInv
<1>2. CASE UNCHANGED vars
  <2>1. UNCHANGED taskVars /\ UNCHANGED <<shownVars, thread>>
    BY <1>2 DEF vars, activityVars, viewVars, taskVars, nativeVars, shownVars
  <2> QED
    BY <2>1, CountedFrame, ViewFrame DEF AppInv
<1> QED
  BY <1>1, <1>2

\* The types and the invariant, which need each other: that a connection whose
\* result arrives was counted keeps the count a natural number.
THEOREM AppInvariant == Spec => [](TypeOK /\ AppInv)
<1>1. Init => TypeOK /\ AppInv
  BY AppTypeInit, AppInvInit
<1>2. (TypeOK /\ AppInv) /\ [Next]_vars => (TypeOK /\ AppInv)'
  BY AppTypeNext, AppInvNext
<1> QED
  BY <1>1, <1>2, PTL DEF Spec

\* Every variable of the application keeps its type, for any number of
\* activities and any length of the queues.
THEOREM AppTypeCorrect == Spec => []TypeOK
<1> QED
  BY AppInvariant, PTL

\* However pauses, surfaces, tasks and their results interleave, setSource
\* (MjpegView.java:273) finds no stream in use and no thread running, although it
\* looks for neither.
THEOREM OneConnectionAtATime == Spec => []OneConnection
<1>1. TypeOK /\ AppInv => OneConnection
  <2> SUFFICES ASSUME TypeOK, AppInv, NEW a \in Activities
               PROVE  /\ connecting[a] <= 1
                      /\ connecting[a] = 1 => ~mRun[a] /\ thread[a] \notin Running /\ ~mIn[a]
    BY DEF OneConnection
  <2>1. connecting[a] \in {0, 1}
    BY DEF AppInv, ConnectionsCounted, Counted
  <2>2. connecting[a] = 1 => ~mIn[a] /\ ~mRun[a] /\ thread[a] \in {"new", "null"}
    BY DEF AppInv, ViewInv, StreamOfThread
  <2> QED
    BY <2>1, <2>2 DEF Running
<1> QED
  BY <1>1, AppInvariant, PTL

\* A view's thread never reads from a stream that was closed under it.
THEOREM StreamOutlivesThread == Spec => []ThreadHasStream
<1>1. AppInv => ThreadHasStream
  BY DEF AppInv, ViewInv, StreamOfThread, ThreadHasStream, Running
<1> QED
  BY <1>1, AppInvariant, PTL

\* A connection that came after onPause is the only way to a thread that plays
\* for nobody.
THEOREM OnlyLateThreadsStray == Spec => []StrayThreadIsLate
<1>1. AppInv => StrayThreadIsLate
  BY DEF AppInv, ViewInv, StreamOfThread, PlaysResumed, StrayThreadIsLate, Running
<1> QED
  BY <1>1, AppInvariant, PTL

\* And the only way to two threads in the native code, or to a buffer freed
\* under one.
THEOREM NativeCodeAlone == Spec => []NativeAlone
<1>1. TypeOK /\ AppInv => NativeAlone
  <2> SUFFICES ASSUME TypeOK, AppInv, late = {},
                      NEW a \in Activities, NEW b \in Activities,
                      thread[a] \in {"native", "stuck"}, thread[b] \in {"native", "stuck"}
               PROVE  a = b
    BY DEF NativeAlone, AppInv, ViewInv
  <2>1. (mRun[a] \/ ui.act = a) /\ (mRun[b] \/ ui.act = b)
    BY DEF AppInv, ViewInv, StreamOfThread
  <2>2. \A c \in Activities : mRun[c] => c \in Resumed
    BY DEF AppInv, ViewInv, PlaysResumed, Resumed
  <2>3. ui.act \in Activities => Resumed = {}
    BY WaitsForActivity DEF AppInv, ViewInv, WaitsFor
  <2>4. CASE mRun[a] /\ mRun[b]
    BY <2>2, <2>4 DEF AppInv, ViewInv, OneResumed
  <2>5. CASE ~(mRun[a] /\ mRun[b])
    BY <2>1, <2>2, <2>3, <2>5
  <2> QED
    BY <2>4, <2>5
<1> QED
  BY <1>1, AppInvariant, PTL

\* The title of a resumed activity says "connected" only over a view that plays,
\* but for a late connection.
THEOREM TitleIsTrue == Spec => []TitleTrue
<1>1. AppInv => TitleTrue
  <2> SUFFICES ASSUME AppInv, NEW a \in Activities, life[a] = "resumed",
                      title[a] = "app_name", connecting[a] = 0
               PROVE  mRun[a] \/ a \in late
    BY DEF TitleTrue
  <2>1. ~suspending[a]
    BY DEF AppInv, ViewInv, SuspendedAtRest
  <2>2. ui # [op |-> "pause", act |-> a]
    BY DEF AppInv, ViewInv, WaitsFor, Free
  <2> QED
    BY <2>1, <2>2 DEF AppInv, ViewInv, TitleTraced
<1> QED
  BY <1>1, AppInvariant, PTL

\* onDestroy frees the native buffer for an activity with a late connection
\* only: in an activity's ordinary life it finds the stream closed.
THEOREM BufferKept == Spec => BufferOutlives
<1>1. TypeOK /\ AppInv /\ [Next]_vars =>
        [rgb /\ ~rgb' => \E a \in late : life[a] = "paused"]_vars
  <2> SUFFICES ASSUME TypeOK, AppInv, Next, rgb, ~rgb'
               PROVE  \E a \in late : life[a] = "paused"
    OBVIOUS
  <2>1. PICK a \in Activities : Destroy(a)
    BY DEF Next, Android, Reopen, Launch, Pause, Resume, SurfaceCreated,
       SurfaceDestroyed, PressButton, Ui, JoinReturns, Connected, Failed, OtherPost,
       Executor, ReadDone, RestartDone, MessageDone, ViewThread, ThreadLoop,
       ThreadRead, ThreadNative, nativeVars
  <2>2. mIn[a] /\ life[a] = "paused"
    BY <2>1 DEF Destroy, FreesBuffer
  <2> QED
    BY <2>1, <2>2, ViewDestroy DEF AppInv
<1> QED
  BY <1>1, AppInvariant, PTL DEF Spec, BufferOutlives
=============================================================================
