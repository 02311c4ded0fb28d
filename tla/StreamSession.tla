--------------------------- MODULE StreamSession ---------------------------
(***************************************************************************)
(* A streaming session: run_stream_session on the main thread, the thread  *)
(* that starts the connection, the input thread of the running stream, and *)
(* the callbacks of the streaming library, which reach the session through *)
(* one global pointer.  A connection that failed in the RTSP handshake is  *)
(* tried once more without the session URL the host supplied.              *)
(***************************************************************************)
EXTENDS Integers

CONSTANT MaxSessions    \* bound on the sessions of one run of the program

ASSUME SessionsAssumption == MaxSessions \in Nat

VARIABLES
    session,        \* number of the last session, whose state is on the stack
    main,           \* what the main thread does next
    resources,      \* renderer, controller and media backend are open
    url,            \* rtspSessionUrl is not empty
    attempt,        \* number of start threads this session has created
    start,          \* the start thread
    input,          \* the input thread
    connection,     \* external: the library's connection
    interrupted,    \* external: LiInterruptConnection was called
    registered,     \* active_connection_state(): a session, 0 for nullptr
    started,        \* connectionState.connectionStarted
    terminated,     \* connectionState.connectionTerminated
    stopRequested,  \* connectionState.stopRequested
    failedStage,    \* connectionState.failedStage
    startResult     \* connectionState.startResult is 0

threadVars  == <<main, start, input>>
libraryVars == <<connection, interrupted>>
stateVars   == <<started, terminated, stopRequested, failedStage, startResult>>
setupVars   == <<session, resources, url, attempt>>
vars        == <<setupVars, threadVars, libraryVars, registered, stateVars>>

Session == 0 .. MaxSessions
Failure == {"none", "rtsp", "other"}

TypeOK ==
    /\ session \in Session
    /\ main \in {"shell", "launch", "create", "starting", "interrupt", "join", "decide",
                 "loop", "active", "joinInput", "stop", "clear", "close"}
    /\ resources \in BOOLEAN /\ url \in BOOLEAN
    /\ attempt \in 0 .. 2
    /\ start \in {"none", "created", "starting", "returned", "done"}
    /\ input \in {"none", "running", "ended"}
    /\ connection \in {"down", "starting", "up", "ended"}
    /\ interrupted \in BOOLEAN
    /\ registered \in Session
    /\ started \in BOOLEAN /\ terminated \in BOOLEAN /\ stopRequested \in BOOLEAN
    /\ failedStage \in Failure
    /\ startResult \in BOOLEAN

Fresh ==
    /\ started' = FALSE /\ terminated' = FALSE /\ stopRequested' = FALSE
    /\ failedStage' = "none" /\ startResult' = FALSE

Init ==
    /\ session = 0 /\ resources = FALSE /\ url = FALSE /\ attempt = 0
    /\ main = "shell" /\ start = "none" /\ input = "none"
    /\ connection = "down" /\ interrupted = FALSE
    /\ registered = 0
    /\ started = FALSE /\ terminated = FALSE /\ stopRequested = FALSE
    /\ failedStage = "none" /\ startResult = FALSE

-----------------------------------------------------------------------------
(* Setting the session up, and starting the connection.                    *)

\* The video mode is switched and the interface of the stream opened.
Open ==
    /\ main = "shell" /\ session < MaxSessions
    /\ resources' = TRUE
    /\ main' = "launch"
    /\ UNCHANGED <<session, url, attempt, start, input, libraryVars, registered, stateVars>>

\* close_stream_ui_resources and the return from run_stream_session.
CloseAndReturn == resources' = FALSE /\ main' = "shell"

\* The random keys cannot be made or the host refuses to launch the app.
LaunchFails ==
    /\ main = "launch"
    /\ CloseAndReturn
    /\ UNCHANGED <<session, url, attempt, start, input, libraryVars, registered, stateVars>>

Launch(hasUrl) ==
    /\ main = "launch"
    /\ session' = session + 1
    /\ url' = hasUrl
    /\ attempt' = 0
    /\ interrupted' = FALSE
    /\ Fresh
    /\ main' = "create"
    /\ UNCHANGED <<resources, start, input, connection, registered>>

\* run_stream_start_attempt: SDL_CreateThread, ...
CreateThread ==
    /\ main = "create"
    /\ attempt' = attempt + 1
    /\ start' = "created"
    /\ main' = "starting"
    /\ UNCHANGED <<session, resources, url, input, libraryVars, registered, stateVars>>

CreateThreadFails ==
    /\ main = "create"
    /\ CloseAndReturn
    /\ UNCHANGED <<session, url, attempt, start, input, libraryVars, registered, stateVars>>

\* ... and the loop around it: while the start has not completed, the exit
\* combo is polled and a stop is passed on to the library.
StartCompleted == start = "done"

StartingDone ==
    /\ main = "starting"
    /\ StartCompleted \/ stopRequested
    /\ main' = "join"
    /\ UNCHANGED <<setupVars, start, input, libraryVars, registered, stateVars>>

StopWhileStarting ==
    /\ main = "starting"
    /\ ~ StartCompleted /\ ~ stopRequested
    /\ stopRequested' = TRUE
    /\ main' = "interrupt"
    /\ UNCHANGED <<setupVars, start, input, libraryVars, registered, started,
                   terminated, failedStage, startResult>>

Interrupt ==
    /\ main = "interrupt"
    /\ interrupted' = TRUE
    /\ main' = "starting"
    /\ UNCHANGED <<setupVars, start, input, connection, registered, stateVars>>

\* Mutant: a stopped start is not waited for.
JoinUnlessStopped ==
    /\ main = "join" /\ (StartCompleted \/ stopRequested)
    /\ main' = "decide"
    /\ UNCHANGED <<setupVars, start, input, libraryVars, registered, stateVars>>

\* SDL_WaitThread
Join ==
    /\ main = "join" /\ StartCompleted
    /\ start' = "none"
    /\ main' = "decide"
    /\ UNCHANGED <<setupVars, input, libraryVars, registered, stateVars>>

\* Mutant: a start the user stopped is retried.
RetryStopped == attempt = 1 /\ ~ started /\ failedStage = "rtsp" /\ url

\* should_retry_stream_without_rtsp_session_url, after the first attempt.
ShouldRetry ==
    attempt = 1 /\ ~ stopRequested /\ ~ started /\ failedStage = "rtsp" /\ url

\* Mutant: reset_connection_state keeps connectionTerminated.
RetryTerminated ==
    /\ main = "decide" /\ ShouldRetry
    /\ url' = FALSE
    /\ started' = FALSE /\ stopRequested' = FALSE
    /\ failedStage' = "none" /\ startResult' = FALSE
    /\ main' = "create"
    /\ UNCHANGED <<session, resources, attempt, start, input, libraryVars, registered, terminated>>

\* run_stream_start_with_rtsp_fallback: the session URL and the state of the
\* first attempt are cleared.
Retry ==
    /\ main = "decide" /\ ShouldRetry
    /\ url' = FALSE
    /\ Fresh
    /\ main' = "create"
    /\ UNCHANGED <<session, resources, attempt, start, input, libraryVars, registered>>

\* The connection could not be started.
GiveUp ==
    /\ main = "decide" /\ ~ ShouldRetry
    /\ ~ startResult \/ ~ started
    /\ registered' = 0
    /\ CloseAndReturn
    /\ UNCHANGED <<session, url, attempt, start, input, libraryVars, stateVars>>

GoOn ==
    /\ main = "decide" /\ ~ ShouldRetry
    /\ startResult /\ started
    /\ main' = "loop"
    /\ UNCHANGED <<setupVars, start, input, libraryVars, registered, stateVars>>

-----------------------------------------------------------------------------
(* run_stream_start_thread                                                 *)

\* Mutant: the callbacks are registered once only.
RunStartOnce ==
    /\ start = "created"
    /\ registered' = IF registered = 0 THEN session ELSE registered
    /\ connection' = "starting"
    /\ start' = "starting"
    /\ UNCHANGED <<setupVars, main, input, interrupted, stateVars>>

\* The callbacks are registered for the session and LiStartConnection called.
RunStart ==
    /\ start = "created"
    /\ registered' = session
    /\ connection' = "starting"
    /\ start' = "starting"
    /\ UNCHANGED <<setupVars, main, input, interrupted, stateVars>>

\* External: LiStartConnection fails, in a stage it reports or in none, and
\* takes down what it had started, ...
StartFails(stage) ==
    /\ start = "starting"
    /\ connection' = "down"
    /\ failedStage' = IF stage = "none" THEN failedStage ELSE stage
    /\ startResult' = FALSE
    /\ start' = "returned"
    /\ UNCHANGED <<setupVars, main, input, interrupted, registered, started,
                   terminated, stopRequested>>

\* ... or it brings the connection up, calls on_connection_started ...
ConnectionStarted ==
    /\ start = "starting" /\ connection = "starting"
    /\ connection' = "up"
    /\ started' = TRUE
    /\ UNCHANGED <<setupVars, threadVars, interrupted, registered, terminated,
                   stopRequested, failedStage, startResult>>

\* ... and returns 0.
StartSucceeds ==
    /\ start = "starting" /\ started
    /\ startResult' = TRUE
    /\ start' = "returned"
    /\ UNCHANGED <<setupVars, main, input, libraryVars, registered, started,
                   terminated, stopRequested, failedStage>>

\* startCompleted is stored and the thread ends.
StartDone ==
    /\ start = "returned"
    /\ start' = "done"
    /\ UNCHANGED <<setupVars, main, input, libraryVars, registered, stateVars>>

StartThread ==
    RunStart \/ (\E stage \in Failure : StartFails(stage)) \/ StartSucceeds \/ StartDone

\* Mutant: the flag is not set for a stream that is not active yet.
ConnectionTerminatedLate ==
    /\ connection \in {"starting", "up"}
    /\ connection' = "ended"
    /\ terminated' = (main = "active")
    /\ UNCHANGED <<setupVars, threadVars, interrupted, registered, started,
                   stopRequested, failedStage, startResult>>

\* External: the host or the network ends the connection, which stays open
\* until it is stopped; on_connection_terminated.
ConnectionTerminated ==
    /\ connection \in {"starting", "up"}
    /\ connection' = "ended"
    /\ terminated' = TRUE
    /\ UNCHANGED <<setupVars, threadVars, interrupted, registered, started,
                   stopRequested, failedStage, startResult>>

-----------------------------------------------------------------------------
(* run_active_stream_loop and run_stream_input_thread                      *)

StreamEnds == terminated \/ stopRequested

\* Without an input thread the main thread polls the controller.
CreateInputThread ==
    /\ main = "loop"
    /\ input' \in {"running", "none"}
    /\ main' = "active"
    /\ UNCHANGED <<setupVars, start, libraryVars, registered, stateVars>>

\* The exit combo, polled by the input thread or by the main thread.
StopByCombo ==
    /\ \/ input = "running"
       \/ main = "active" /\ input = "none"
    /\ ~ StreamEnds
    /\ stopRequested' = TRUE
    /\ UNCHANGED <<setupVars, threadVars, libraryVars, registered, started,
                   terminated, failedStage, startResult>>

InputEnds ==
    /\ input = "running"
    /\ StreamEnds \/ main = "joinInput"
    /\ input' = "ended"
    /\ UNCHANGED <<setupVars, main, start, libraryVars, registered, stateVars>>

LeaveLoop ==
    /\ main = "active" /\ StreamEnds
    /\ main' = "joinInput"
    /\ UNCHANGED <<setupVars, start, input, libraryVars, registered, stateVars>>

\* wait_for_stream_input_thread
JoinInput ==
    /\ main = "joinInput"
    /\ input # "running"
    /\ input' = "none"
    /\ main' = "stop"
    /\ UNCHANGED <<setupVars, start, libraryVars, registered, stateVars>>

\* LiStopConnection
Stop ==
    /\ main = "stop"
    /\ connection' = "down"
    /\ main' = "clear"
    /\ UNCHANGED <<setupVars, start, input, interrupted, registered, stateVars>>

Unregister ==
    /\ main = "clear"
    /\ registered' = 0
    /\ main' = "close"
    /\ UNCHANGED <<setupVars, start, input, libraryVars, stateVars>>

\* After the statistics, when they are shown, were dismissed.
Close ==
    /\ main = "close"
    /\ CloseAndReturn
    /\ UNCHANGED <<session, url, attempt, start, input, libraryVars, registered, stateVars>>

Over == main = "shell" /\ session = MaxSessions /\ UNCHANGED vars

Starting == LaunchFails \/ (\E hasUrl \in BOOLEAN : Launch(hasUrl)) \/ CreateThread
              \/ CreateThreadFails \/ StartingDone \/ Interrupt \/ Join \/ Retry
              \/ GiveUp \/ GoOn
Streaming == CreateInputThread \/ LeaveLoop \/ JoinInput \/ Stop \/ Unregister \/ Close
User     == Open \/ StopWhileStarting \/ StopByCombo
Library  == ConnectionStarted \/ ConnectionTerminated

Next == Starting \/ Streaming \/ User \/ StartThread \/ InputEnds \/ Library \/ Over

\* The threads are scheduled, and LiStartConnection returns in the end.  The
\* user need not stop and the host need not end a stream.
Fairness ==
    /\ WF_vars(Starting) /\ WF_vars(Streaming)
    /\ WF_vars(StartThread) /\ WF_vars(InputEnds)

Spec == Init /\ [][Next]_vars /\ Fairness

-----------------------------------------------------------------------------
(* The inductive invariant behind the safety properties.                   *)

Idle == main \in {"shell", "launch"}
Waiting == main \in {"starting", "interrupt", "join"}
Live == main \in {"loop", "active", "joinInput", "stop"}
HasConnection == connection \in {"up", "ended"}

MainInv ==
    /\ resources <=> main # "shell"
    /\ main = "launch" => session < MaxSessions
    /\ main = "create" => attempt < 2 /\ ~ (started \/ terminated \/ stopRequested)
    /\ input # "none" => main \in {"active", "joinInput"}

\* The start thread and what it has reached.
StartInv ==
    /\ start # "none" <=> Waiting
    /\ start = "created" => ~ terminated /\ ~ started
    /\ start = "starting" => connection # "down" /\ (started => HasConnection)
    /\ start \in {"returned", "done"} \/ main = "decide" =>
         IF startResult THEN started /\ HasConnection ELSE connection = "down"

ConnectionInv ==
    /\ connection # "down" => registered = session
    /\ connection = "starting" => start = "starting"
    /\ Idle \/ main \in {"create", "clear", "close"} \/ start = "created"
         => connection = "down"
    /\ Live => HasConnection

\* How the stop of the user and the end of the connection are remembered.
EndInv ==
    /\ main = "interrupt" => stopRequested
    /\ main = "join" => StartCompleted \/ stopRequested
    /\ (main \in {"starting", "join"} /\ stopRequested) => interrupted
    /\ (interrupted /\ ~ Idle) => stopRequested
    /\ (connection # "down" /\ terminated) => connection = "ended"
    /\ main \in {"joinInput", "stop"} => StreamEnds

SessionInv == TypeOK /\ MainInv /\ StartInv /\ ConnectionInv /\ EndInv

-----------------------------------------------------------------------------

\* While the library has a connection its callbacks reach the session on the
\* stack: never none, and never one that has returned.
CallbacksReachSession ==
    connection # "down" => registered = session /\ main # "shell"

\* The library never uses a media backend or a controller that is closed, and
\* no thread of the session outlives it.
ResourcesOutliveUse ==
    (connection # "down" \/ start # "none" \/ input # "none") => resources

\* Input is only sent into a connection that is open.
InputNeedsConnection == input = "running" => connection \in {"up", "ended"}

\* The main thread waits for a start that has not completed only after it
\* told the library to give up.
WaitsForInterrupted == (main = "join" /\ ~ StartCompleted) => interrupted

\* A stream ends because the user stopped it or this very connection ended,
\* not because of what an earlier attempt left behind.
EndsForAReason ==
    (main \in {"joinInput", "stop"} /\ ~ stopRequested) => connection = "ended"

\* Once the user has stopped a start there is no further attempt.
StopIsFinal == [][interrupted => attempt' <= attempt]_vars

\* A session the user stops, and a stream the host ends, comes to its end.
SessionEnds ==
    (\/ main \notin {"shell", "launch"} /\ stopRequested
     \/ main = "active" /\ connection = "ended")
        ~> main \in {"shell", "close"}
=============================================================================
