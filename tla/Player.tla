-------------------------------- MODULE Player --------------------------------
(* The video player: a controller in the GUI thread (PlayerController,      *)
(* VideoTimer, HomeViewController) that adds a task for each timestamp to   *)
(* an OperationQueue, whose worker waits for a bus message, takes the       *)
(* newest frame of the Decoder and sends it to the view.  Nothing deletes   *)
(* the controller: when the window is closed the event loop ends.           *)
EXTENDS Integers, Sequences, FiniteSets

CONSTANTS
    Workers,    \* setMaxConcurrentOperationCount: one
    Duration,   \* durationMs_ in frame durations: no code sets it, so 0
    MaxTasks, MaxFrames, MaxNews, MaxClicks     \* bounds

VARIABLES
    taskQueue,          \* of the OperationQueue
    worker,             \* what each worker does
    log,                \* tasks added, started and cancelled (history)
    timer,              \* VideoTimer: active, and the next timestamp
    view,               \* HomeViewController: button and slider
    events,             \* queued signals for the GUI thread
    gui,                \* where the GUI thread is
    bus,                \* messages of the pipeline that nobody has taken
    pipeline,           \* what runs behind the decoder
    dec,                \* Decoder: is_playing and the newest frame
    announced,          \* frames sent to the view (history)
    shown,              \* frames the view has drawn (history)
    quirks,             \* departures that have happened (history)
    clicks              \* what the user has done (bound)

queueVars == <<taskQueue, log>>
guiVars == <<timer, view, gui, clicks>>
decoderVars == <<bus, pipeline, dec>>
viewVars == <<announced, shown, quirks>>
vars == <<queueVars, worker, guiVars, events, decoderVars, viewVars>>

NoFrame == 0

Init ==
    /\ taskQueue = <<>>
    /\ worker = [w \in Workers |-> [at |-> "check", task |-> 0, frame |-> NoFrame]]
    /\ log = [added |-> 0, started |-> <<>>, cancelled |-> {}]
    /\ timer = [active |-> FALSE, ts |-> 0]
    /\ view = [checked |-> FALSE, pressed |-> FALSE]
    /\ events = <<>> /\ gui = "init" /\ clicks = 0
    /\ bus = <<>> /\ pipeline = [state |-> "none", frames |-> 0, news |-> 0]
    /\ dec = [playing |-> FALSE, frame |-> NoFrame, new |-> FALSE]
    /\ announced = <<>> /\ shown = <<>> /\ quirks = {}

-----------------------------------------------------------------------------
(* OperationQueue. *)

\* wait with its predicate, and pop, in one hold of the mutex.
WorkerCheck(w) ==
    /\ worker[w].at = "check"
    /\ IF taskQueue = <<>>
       THEN worker' = [worker EXCEPT ![w].at = "asleep"] /\ UNCHANGED <<taskQueue, log>>
       ELSE /\ worker' = [worker EXCEPT ![w] = [at |-> "decode", task |-> Head(taskQueue), frame |-> NoFrame]]
            /\ taskQueue' = Tail(taskQueue)
            /\ log' = [log EXCEPT !.started = Append(@, Head(taskQueue))]
    /\ UNCHANGED <<guiVars, events, decoderVars, viewVars>>

Asleep == {w \in Workers : worker[w].at = "asleep"}
Woken(ws) == [w \in Workers |-> IF w \in ws THEN [worker[w] EXCEPT !.at = "check"] ELSE worker[w]]

notify_one == IF Asleep = {} THEN UNCHANGED worker ELSE \E w \in Asleep : worker' = Woken({w})

\* onTimestampUpdated adds n tasks, addTaskWithBlock notifies after it has
\* unlocked; a seek comes through here twice.
Add(q, n) ==
    /\ taskQueue' = q \o [i \in 1..n |-> log.added + i]
    /\ gui' = "notify"

Notify ==
    /\ gui = "notify" /\ gui' = "loop" /\ notify_one
    /\ UNCHANGED <<queueVars, timer, view, clicks, events, decoderVars, viewVars>>

-----------------------------------------------------------------------------
(* Decoder, and the pipeline behind it. *)

\* new_sample, in a streaming thread, under frame_mutex.
NewSample ==
    /\ pipeline.state = "running" /\ pipeline.frames < MaxFrames
    /\ pipeline' = [pipeline EXCEPT !.frames = @ + 1]
    /\ dec' = [dec EXCEPT !.frame = pipeline.frames + 1, !.new = TRUE]
    /\ UNCHANGED <<queueVars, worker, guiVars, events, bus, viewVars>>

\* A message of another kind, or the one that ends the stream.
Message ==
    /\ pipeline.state = "running"
    /\ \/ /\ pipeline.news < MaxNews /\ bus' = Append(bus, "news")
          /\ pipeline' = [pipeline EXCEPT !.news = @ + 1]
       \/ bus' = Append(bus, "end") /\ pipeline' = [pipeline EXCEPT !.state = "ended"]
    /\ UNCHANGED <<queueVars, worker, guiVars, events, dec, viewVars>>

\* Mutant: the end of the stream does not stop the decoder.
PlaysOn(playing, msg) == playing
\* bus_call
StillPlays(playing, msg) == playing /\ msg # "end"

\* The iteration blocks until the bus has a message.
Iterate(w) ==
    /\ worker[w].at = "decode"
    /\ \/ ~dec.playing /\ worker' = [worker EXCEPT ![w].at = "emit"] /\ UNCHANGED <<bus, dec>>
       \/ /\ dec.playing /\ bus # <<>>
          /\ bus' = Tail(bus) /\ dec' = [dec EXCEPT !.playing = StillPlays(@, Head(bus))]
          /\ worker' = [worker EXCEPT ![w].at = "take"]
    /\ UNCHANGED <<queueVars, guiVars, events, pipeline, viewVars>>

NewAfterTake(new) == FALSE

TakeFrame(w) ==
    /\ worker[w].at = "take"
    /\ worker' = [worker EXCEPT ![w].at = "emit", ![w].frame = IF dec.new THEN dec.frame ELSE NoFrame]
    /\ dec' = [dec EXCEPT !.new = NewAfterTake(@)]
    /\ UNCHANGED <<queueVars, guiVars, events, bus, pipeline, viewVars>>

\* updateTexture is sent whether there is a frame or not, with a pointer into
\* the frame of the task.
Emit(w) ==
    /\ worker[w].at = "emit" /\ worker' = [worker EXCEPT ![w].at = "emitted"]
    /\ events' = Append(events, [name |-> "updateTexture", task |-> worker[w].task, frame |-> worker[w].frame])
    /\ announced' = IF worker[w].frame = NoFrame THEN announced ELSE Append(announced, worker[w].frame)
    /\ UNCHANGED <<queueVars, guiVars, decoderVars, shown, quirks>>

\* The end of the task block frees the frame.
Completed(w) ==
    /\ worker[w].at = "emitted"
    /\ worker' = [worker EXCEPT ![w] = [at |-> "check", task |-> 0, frame |-> NoFrame]]
    /\ UNCHANGED <<queueVars, guiVars, events, decoderVars, viewVars>>

-----------------------------------------------------------------------------
(* The GUI thread. *)

Adds(n) == log.added + n <= MaxTasks
Added(n) == log' = [log EXCEPT !.added = @ + n]

\* init starts the worker and shows the first frame; a pipeline that fails
\* ends it.
ControllerInit ==
    /\ gui = "init"
    /\ \/ /\ pipeline' = [pipeline EXCEPT !.state = "running"] /\ dec' = [dec EXCEPT !.playing = TRUE]
          /\ Add(taskQueue, 1) /\ Added(1)
       \/ gui' = "loop" /\ UNCHANGED <<queueVars, pipeline, dec>>
    /\ UNCHANGED <<worker, timer, view, clicks, events, bus, viewVars>>

Stopped(t) == [active |-> FALSE, ts |-> 0]

\* onTimerTimeout: the timestamp moves on after the slot, even when the slot
\* has stopped the timer.
Tick ==
    /\ gui = "loop" /\ timer.active
    /\ IF timer.ts > Duration
       THEN /\ events' = Append(events, [name |-> "playFinished", task |-> 0, frame |-> NoFrame])
            /\ timer' = [Stopped(timer) EXCEPT !.ts = @ + 1]
            /\ UNCHANGED <<queueVars, gui>>
       ELSE /\ Adds(1) /\ Add(taskQueue, 1) /\ Added(1)
            /\ timer' = [timer EXCEPT !.ts = @ + 1]
            /\ UNCHANGED events
    /\ UNCHANGED <<worker, view, clicks, decoderVars, viewVars>>

Paused(t) == [t EXCEPT !.active = FALSE]
Click == gui = "loop" /\ clicks < MaxClicks /\ clicks' = clicks + 1

\* toggled: play or pause.
Toggle ==
    /\ Click /\ view' = [view EXCEPT !.checked = ~@]
    /\ timer' = [timer EXCEPT !.active = ~view.checked]
    /\ UNCHANGED <<queueVars, worker, gui, events, decoderVars, viewVars>>

\* onSliderPressed: holdSeek(true)
Press ==
    /\ Click /\ ~view.pressed
    /\ view' = [view EXCEPT !.pressed = TRUE] /\ timer' = Paused(timer)
    /\ UNCHANGED <<queueVars, worker, gui, events, decoderVars, viewVars>>

\* setChecked emits toggled when the button was checked.
Unchecked(v) == [v EXCEPT !.checked = FALSE]
Untoggled(t) == IF view.checked THEN Paused(t) ELSE t

Elements(q) == {q[i] : i \in DOMAIN q}

\* Mutant: what is queued is decoded too.
CancelNone(q) == q
cancelAllTask(q) == <<>>

\* onSliderReleased: seekTo drops the queued tasks and, with a duration of 0,
\* shows the first frame again, through the timer and by itself.
Release ==
    /\ Click /\ view.pressed /\ Adds(2)
    /\ Add(cancelAllTask(taskQueue), 2)
    /\ log' = [log EXCEPT !.added = @ + 2, !.cancelled = @ \cup Elements(taskQueue)]
    /\ timer' = Untoggled([timer EXCEPT !.ts = 0])
    /\ view' = [Unchecked(view) EXCEPT !.pressed = FALSE]
    /\ UNCHANGED <<worker, events, decoderVars, viewVars>>

\* A queued signal reaches its slot.
PlayFinished ==
    /\ Head(events).name = "playFinished"
    /\ view' = [view EXCEPT !.checked = FALSE] /\ timer' = Untoggled(timer)
    /\ UNCHANGED viewVars

\* The task whose frame the signal points into has not ended.
FrameIsKept(e) == \E w \in Workers : worker[w].at = "emitted" /\ worker[w].task = e.task

\* onUpdateTexture reads the bytes only now: whatever is there, when the
\* task has ended and freed them.
UpdateTexture ==
    LET e == Head(events)
    IN  /\ e.name = "updateTexture"
        /\ CASE e.frame = NoFrame -> UNCHANGED <<shown, quirks>>
             [] e.frame # NoFrame /\ FrameIsKept(e) -> shown' = Append(shown, e.frame) /\ UNCHANGED quirks
             [] OTHER -> /\ \E f \in 0..MaxFrames : shown' = Append(shown, f)
                         /\ quirks' = quirks \cup {"freed_frame"}
        /\ UNCHANGED <<view, timer, announced>>

Deliver ==
    /\ gui = "loop" /\ events # <<>> /\ events' = Tail(events)
    /\ PlayFinished \/ UpdateTexture
    /\ UNCHANGED <<queueVars, worker, gui, clicks, decoderVars>>

\* The window is closed and the event loop ends, with the worker where it is.
Leave ==
    /\ gui = "loop" /\ gui' = "left"
    /\ UNCHANGED <<queueVars, worker, timer, view, clicks, events, decoderVars, viewVars>>

Worker(w) == WorkerCheck(w) \/ Iterate(w) \/ TakeFrame(w) \/ Emit(w) \/ Completed(w)
Calls == ControllerInit \/ Notify
User == Toggle \/ Press \/ Release \/ Leave

Next == (\E w \in Workers : Worker(w)) \/ Calls \/ User \/ Tick \/ Deliver \/ NewSample \/ Message

(* The worker and a call that has begun go on, the event loop serves timers *)
(* and signals, and the file ends.                                          *)
Fairness ==
    /\ \A w \in Workers : WF_vars(Worker(w))
    /\ WF_vars(Calls) /\ WF_vars(Tick) /\ WF_vars(Deliver) /\ WF_vars(Message)

Spec == Init /\ [][Next]_vars /\ Fairness

-----------------------------------------------------------------------------
TypeOK ==
    /\ Elements(taskQueue) \subseteq 1..log.added
    /\ \A w \in Workers : worker[w].at \in {"check", "asleep", "decode", "take", "emit", "emitted"}
    /\ timer.active \in BOOLEAN /\ timer.ts \in 0..(Duration + 2)
    /\ gui \in {"init", "loop", "notify", "left"}
    /\ dec.frame \in 0..MaxFrames

(* Tasks start in the order in which they were added, each at most once,    *)
(* and one that a seek cancelled never starts.                              *)
StartedInOrder ==
    /\ \A i, j \in DOMAIN log.started : i < j => log.started[i] < log.started[j]
    /\ Elements(log.started) \cap log.cancelled = {}

(* Each frame is announced to the view once, and never an older one after a *)
(* newer one; and so the view draws them, as long as it has drawn none from *)
(* a task that had ended.                                                   *)
Advance(frames) == \A i, j \in DOMAIN frames : i < j => frames[i] < frames[j]
FramesAdvance == Advance(announced) /\ (Advance(shown) \/ "freed_frame" \in quirks)

(* A task that was added was started or cancelled, or is queued.            *)
NoTaskForgotten == Elements(log.started) \cup log.cancelled \cup Elements(taskQueue) = 1..log.added

(* The button says whether the timer runs, unless the slider is held or the *)
(* end of the video has not reached the button yet.                         *)
ButtonFollowsTimer ==
    gui = "loop" /\ ~view.pressed /\ (\A i \in DOMAIN events : events[i].name # "playFinished")
      => view.checked = timer.active

(* A task that was added is started or cancelled: the worker is asleep for  *)
(* none that was notified, and leaves the task it is at when the file ends. *)
(* (The process ends soon after the event loop.)                            *)
TaskIsTaken ==
    \A t \in 1..MaxTasks : t \in Elements(taskQueue) ~> t \notin Elements(taskQueue) \/ gui = "left"

(* What plays ends: the button comes up by itself at the end of the video,  *)
(* unless the user holds the slider or leaves (or the bound is reached).    *)
PlayingEnds == view.checked ~> ~view.checked \/ view.pressed \/ gui = "left" \/ ~Adds(1)

(* Tasks start in the order in which they were queued and none is forgotten,*)
(* frames advance, and the button shows what the timer does.                *)
PlaybackOrdered ==
    /\ TypeOK
    /\ StartedInOrder
    /\ NoTaskForgotten
    /\ FramesAdvance
    /\ ButtonFollowsTimer

(* A queued task is taken, and what plays ends.                             *)
PlayerEnds ==
    /\ TaskIsTaken
    /\ PlayingEnds
===============================================================================
