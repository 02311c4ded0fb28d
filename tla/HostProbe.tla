----------------------------- MODULE HostProbe -----------------------------
(***************************************************************************)
(* The saved-host refresh of the shell loop.                               *)
(*                                                                         *)
(* One worker thread per saved host asks the host for its status and       *)
(* publishes the answer in a mutex-guarded queue; the shell loop drains    *)
(* the queue, joins finished workers and ends the round.  The lock of      *)
(* HostProbeResultQueue makes each queue operation one atomic step; a      *)
(* worker's publication and its completed flag are two separate steps, and *)
(* the loop's drain, reap, drain and completeness test are separate too,   *)
(* so every interleaving of the two sides is explored.  A host may fall     *)
(* silent in the probe's request under TLS, which has no deadline: its      *)
(* worker then waits until the host answers or closes, if it ever does.     *)
(***************************************************************************)
EXTENDS Naturals, Sequences, FiniteSets

CONSTANT Host        \* endpoints that can be saved, each probed by one worker

ASSUME HostsAssumption == IsFiniteSet(Host)

VARIABLES
    pc,               \* what the shell loop runs next
    onHosts,          \* activeScreen == hosts /\ hosts.loaded
    saved,            \* endpoints in hosts.items
    dirty,            \* hosts.dirty
    reach,            \* HostRecord::reachability of each endpoint
    workers,          \* HostProbeTaskState::workers, the threads not yet joined
    toLaunch,         \* records the launch loop has still to visit
    toReap,           \* workers the reap loop has still to visit
    metadataChanged,  \* HostProbeTaskState::metadataChanged
    reported,         \* onlineCount + offlineCount
    target,           \* HostProbeResultQueue::targetCount_
    published,        \* HostProbeResultQueue::publishedCount_
    pending,          \* HostProbeResultQueue::pendingResults_
    thread            \* life of the worker of each endpoint in this round

shellVars == <<onHosts, saved, dirty, reach>>
taskVars  == <<workers, toLaunch, toReap, metadataChanged, reported>>
queueVars == <<target, published, pending>>
vars      == <<pc, shellVars, taskVars, queueVars, thread>>

Reach     == {"unknown", "online", "offline"}
Result    == [host : Host, success : BOOLEAN]
Stage     == {"none", "probing", "silent", "published", "completed", "joined"}
LoopPc    == {"drain", "reap", "drainAgain", "check", "start", "launch",
              "input", "joinForStream", "joinForExit", "done"}

\* Workers whose answer is in the queue or beyond it.
HasPublished(h) == thread[h] \in {"published", "completed", "joined"}
Publishers      == {h \in Host : HasPublished(h)}
Launched        == {h \in Host : thread[h] # "none"}
PendingHosts    == {pending[i].host : i \in DOMAIN pending}

QueueIsEmpty == target = 0 /\ published = 0 /\ pending = <<>>

\* reset_host_probe_task: forget the workers, the queue and the counters.
ResetTask ==
    /\ workers' = {}
    /\ toLaunch' = {}
    /\ toReap' = {}
    /\ metadataChanged' = FALSE
    /\ reported' = 0
    /\ target' = 0 /\ published' = 0 /\ pending' = <<>>
    /\ thread' = [h \in Host |-> "none"]

TypeOK ==
    /\ pc \in LoopPc
    /\ onHosts \in BOOLEAN
    /\ saved \subseteq Host
    /\ dirty \in BOOLEAN
    /\ reach \in [Host -> Reach]
    /\ workers \subseteq Host
    /\ toLaunch \subseteq Host
    /\ toReap \subseteq Host
    /\ metadataChanged \in BOOLEAN
    /\ reported \in Nat
    /\ target \in Nat
    /\ published \in Nat
    /\ pending \in Seq(Result)
    /\ thread \in [Host -> Stage]

Init ==
    /\ pc = "drain"
    /\ onHosts = TRUE
    /\ saved \in SUBSET Host
    /\ dirty = FALSE
    /\ reach = [h \in Host |-> "unknown"]
    /\ workers = {} /\ toLaunch = {} /\ toReap = {}
    /\ metadataChanged = FALSE
    /\ reported = 0
    /\ QueueIsEmpty
    /\ thread = [h \in Host |-> "none"]

-----------------------------------------------------------------------------
(* The worker threads: run_host_probe_task.                                *)

\* The host says nothing more in the request under TLS: recv_all_ssl reads
\* again after every timeout of the socket, and a probe is not cancelled.
FallSilent(h) ==
    /\ thread[h] = "probing"
    /\ thread' = [thread EXCEPT ![h] = "silent"]
    /\ UNCHANGED <<pc, shellVars, taskVars, queueVars>>

\* publish_host_probe_result under the queue's lock.
Publish(h) ==
    /\ thread[h] \in {"probing", "silent"}
    /\ \E ok \in BOOLEAN :
          pending' = Append(pending, [host |-> h, success |-> ok])
    /\ published' = published + 1
    /\ thread' = [thread EXCEPT ![h] = "published"]
    /\ UNCHANGED <<pc, shellVars, taskVars, target>>

\* worker->completed.store(true), the thread's last access to its state.
Complete(h) ==
    /\ thread[h] = "published"
    /\ thread' = [thread EXCEPT ![h] = "completed"]
    /\ UNCHANGED <<pc, shellVars, taskVars, queueVars>>

-----------------------------------------------------------------------------
(* The shell loop: finish_host_probe_task_if_ready.                        *)

Answered(h, ok) == \E i \in DOMAIN pending :
                      pending[i] = [host |-> h, success |-> ok]

\* apply_published_host_probe_results: take every pending answer.  Answers
\* change host records only while the hosts page is shown and loaded; a
\* successful one may change persisted metadata (name, pairing).
ApplyPublished ==
    /\ pending' = <<>>
    /\ reported' = reported + Len(pending)
    /\ IF onHosts
       THEN /\ reach' = [h \in Host |->
                 CASE h \in saved /\ Answered(h, TRUE)  -> "online"
                   [] h \in saved /\ Answered(h, FALSE) -> "offline"
                   [] OTHER -> reach[h]]
            /\ dirty' \in IF \E h \in saved : Answered(h, TRUE)
                          THEN {dirty, TRUE} ELSE {dirty}
            /\ metadataChanged' =
                 (metadataChanged \/ (dirty' /\ \E h \in Host : Answered(h, TRUE)))
       ELSE UNCHANGED <<reach, dirty, metadataChanged>>
    /\ UNCHANGED <<onHosts, saved, workers, toLaunch, target, published, thread>>

Drain ==
    /\ pc = "drain"
    /\ ApplyPublished
    /\ pc' = "reap"
    /\ toReap' = workers

\* One iteration of reap_completed_host_probe_workers: a worker seen completed
\* is joined, any other is left for a later frame.
Reap(h) ==
    /\ pc = "reap"
    /\ h \in toReap
    /\ toReap' = toReap \ {h}
    /\ IF thread[h] = "completed"
       THEN /\ workers' = workers \ {h}
            /\ thread' = [thread EXCEPT ![h] = "joined"]
       ELSE UNCHANGED <<workers, thread>>
    /\ UNCHANGED <<pc, shellVars, toLaunch, metadataChanged, reported, queueVars>>

ReapDone ==
    /\ pc = "reap"
    /\ toReap = {}
    /\ pc' = "drainAgain"
    /\ UNCHANGED <<shellVars, taskVars, queueVars, thread>>

DrainAgain ==
    /\ pc = "drainAgain"
    /\ ApplyPublished
    /\ pc' = "check"
    /\ UNCHANGED toReap

\* host_probe_result_round_complete
RoundComplete == target # 0 /\ published >= target

\* Mutant: the round ends when all have published, joined or not.
AllPublished == RoundComplete

RoundOver == workers = {} /\ RoundComplete

StillRunning ==
    /\ pc = "check"
    /\ ~ RoundOver
    /\ pc' = "start"
    /\ UNCHANGED <<shellVars, taskVars, queueVars, thread>>

\* The end of a round: save what it changed (a failed save leaves the records
\* dirty), then forget the round.
FinishRound ==
    /\ pc = "check"
    /\ RoundOver
    /\ dirty' \in IF metadataChanged THEN {FALSE, dirty} ELSE {dirty}
    /\ ResetTask
    /\ pc' = "start"
    /\ UNCHANGED <<onHosts, saved, reach>>

-----------------------------------------------------------------------------
(* start_host_probe_task_if_needed                                         *)

\* No round is due: one is running, another page is shown, the refresh
\* interval has not elapsed or the network is down.
StartNothing ==
    /\ pc = "start"
    /\ pc' = "input"
    /\ UNCHANGED <<shellVars, taskVars, queueVars, thread>>

\* Mutant: a new round does not wait for the workers of the last one.
BeginRoundAnyway ==
    /\ pc = "start"
    /\ onHosts
    /\ workers' = {} /\ toReap' = {} /\ metadataChanged' = FALSE /\ reported' = 0
    /\ thread' = [h \in Host |-> "none"]
    /\ target' = Cardinality(saved) /\ published' = 0 /\ pending' = <<>>
    /\ toLaunch' = saved
    /\ pc' = "launch"
    /\ UNCHANGED shellVars

\* begin_host_probe_result_round announces one answer per saved record.
BeginRound ==
    /\ pc = "start"
    /\ workers = {}
    /\ onHosts
    /\ workers' = {} /\ toReap' = {} /\ metadataChanged' = FALSE /\ reported' = 0
    /\ thread' = [h \in Host |-> "none"]
    /\ target' = Cardinality(saved) /\ published' = 0 /\ pending' = <<>>
    /\ toLaunch' = saved
    /\ pc' = "launch"
    /\ UNCHANGED shellVars

Launch(h) ==
    /\ pc = "launch"
    /\ h \in toLaunch
    /\ toLaunch' = toLaunch \ {h}
    /\ workers' = workers \cup {h}
    /\ thread' = [thread EXCEPT ![h] = "probing"]
    /\ UNCHANGED <<pc, shellVars, toReap, metadataChanged, reported, queueVars>>

\* Mutant: a launch failure withdraws no record.
SkipNoTarget(h) ==
    /\ pc = "launch"
    /\ h \in toLaunch
    /\ toLaunch' = toLaunch \ {h}
    /\ UNCHANGED <<pc, shellVars, workers, toReap, metadataChanged, reported,
                   queueVars, thread>>

\* SDL_CreateThread failed: skip_host_probe_result_target.
LaunchFails(h) ==
    /\ pc = "launch"
    /\ h \in toLaunch
    /\ toLaunch' = toLaunch \ {h}
    /\ target' = IF target > 0 THEN target - 1 ELSE target
    /\ UNCHANGED <<pc, shellVars, workers, toReap, metadataChanged, reported,
                   published, pending, thread>>

LaunchDone ==
    /\ pc = "launch"
    /\ toLaunch = {}
    /\ IF workers = {} THEN ResetTask ELSE UNCHANGED <<taskVars, queueVars, thread>>
    /\ pc' = "input"
    /\ UNCHANGED shellVars

-----------------------------------------------------------------------------
(* Between the two: commands of the user and the end of the shell.         *)

NoCommand ==
    /\ pc = "input"
    /\ pc' = "drain"
    /\ UNCHANGED <<shellVars, taskVars, queueVars, thread>>

\* Opening another page that unloads the hosts page.
LeaveHosts ==
    /\ pc = "input"
    /\ onHosts
    /\ onHosts' = FALSE
    /\ pc' = "drain"
    /\ UNCHANGED <<saved, dirty, reach, taskVars, queueVars, thread>>

\* Back on the hosts page: replace_hosts reloads the records from disk.
ReturnToHosts ==
    /\ pc = "input"
    /\ ~ onHosts
    /\ onHosts' = TRUE
    /\ dirty' = FALSE
    /\ reach' = [h \in Host |-> "unknown"]
    /\ pc' = "drain"
    /\ UNCHANGED <<saved, taskVars, queueVars, thread>>

\* Saving or deleting one host, written to disk at once.
EditHosts ==
    /\ pc = "input"
    /\ onHosts
    /\ \E h \in Host :
          /\ saved' = IF h \in saved THEN saved \ {h} ELSE saved \cup {h}
          /\ reach' = [reach EXCEPT ![h] = "unknown"]
    /\ dirty' \in BOOLEAN
    /\ pc' = "drain"
    /\ UNCHANGED <<onHosts, taskVars, queueVars, thread>>

\* launch_stream_if_requested and the end of run_shell both call
\* finalize_shell_tasks, which waits for every worker.
StopShell ==
    /\ pc = "input"
    /\ pc' \in {"joinForStream", "joinForExit"}
    /\ UNCHANGED <<shellVars, taskVars, queueVars, thread>>

AllWorkersEnded == \A h \in workers : thread[h] = "completed"

\* initialize_shell_runtime after the stream session forgets the old round.
ResumeAfterStream ==
    /\ pc = "joinForStream"
    /\ AllWorkersEnded
    /\ ResetTask
    /\ pc' = "drain"
    /\ UNCHANGED shellVars

Exit ==
    /\ pc = "joinForExit"
    /\ AllWorkersEnded
    /\ pc' = "done"
    /\ UNCHANGED <<shellVars, taskVars, queueVars, thread>>

Exited == pc = "done" /\ UNCHANGED vars

-----------------------------------------------------------------------------

FinishTask == Drain \/ (\E h \in Host : Reap(h)) \/ ReapDone \/ DrainAgain
                \/ StillRunning \/ FinishRound
StartTask  == StartNothing \/ BeginRound \/ LaunchDone
                \/ (\E h \in Host : Launch(h) \/ LaunchFails(h))
Command    == NoCommand \/ LeaveHosts \/ ReturnToHosts \/ EditHosts \/ StopShell
Finalize   == ResumeAfterStream \/ Exit

Loop   == FinishTask \/ StartTask \/ Command \/ Finalize
Worker == \E h \in Host : FallSilent(h) \/ Publish(h) \/ Complete(h)

Next == Loop \/ Worker \/ Exited

\* What a worker does on its own: everything but the answer of a silent host.
OnItsOwn(h) == (thread[h] = "probing" /\ Publish(h)) \/ Complete(h)

\* The loop never blocks while the shell runs, and the operating system runs
\* every worker.  Connects, sends and the reads outside TLS time out; nothing
\* bounds the wait for a host that is silent under TLS.
Fairness == WF_vars(Loop) /\ \A h \in Host : WF_vars(OnItsOwn(h))

Spec == Init /\ [][Next]_vars /\ Fairness

-----------------------------------------------------------------------------
(* What the round promises.                                                *)

\* When a round ends, every worker it launched has had its answer taken: none
\* is lost between the drains and the join (shell_screen.cpp:3006-3011).
EveryAnswerTaken ==
    (pc = "check" /\ RoundOver) =>
        /\ pending = <<>>
        /\ reported = Cardinality(Launched)
        /\ reported = target

\* Between commands, a task without workers has an idle queue: no answer is
\* left over to be applied to a later round, no round is left unfinished.
IdleWithoutWorkers ==
    (pc = "input" /\ workers = {}) => QueueIsEmpty

\* The queue and the identity the workers point into are reset only when no
\* worker can still touch them.
NoResetUnderWorkers ==
    [][(\E h \in Host : thread[h] # "none" /\ thread'[h] = "none")
         => \A h \in Host : thread[h] \notin {"probing", "silent", "published"}]_vars

\* A round that was announced ends, thread-creation failures included, unless
\* the shell stops first or some host is silent under TLS for ever, which
\* alone holds a round open (host_pairing.cpp:1616-1618).
HeldBy(h) == thread[h] = "silent"
RoundsEnd ==
    (target # 0) ~> \/ target = 0 \/ pc = "done"
                    \/ \E h \in Host : []HeldBy(h)

\* The inductive invariant behind these promises.  The loop's workers are
\* exactly the threads not yet joined, and the launch list is used only while
\* launching.
WorkersUnjoined ==
    /\ workers = {h \in Host : thread[h] \in {"probing", "silent", "published", "completed"}}
    /\ toReap \subseteq workers
    /\ pc # "reap" => toReap = {}
    /\ pc # "launch" => toLaunch = {}
    /\ toLaunch \cap Launched = {}

\* A pending answer comes from a worker that published it, and, except
\* between the reap and the second drain, that worker is not joined.
PendingFromWorkers ==
    /\ PendingHosts \subseteq Publishers
    /\ pc \notin {"reap", "drainAgain"} => \A h \in PendingHosts : thread[h] # "joined"

\* The queue's counters are the numbers of targets and publications.
CountsAgree ==
    /\ published = Cardinality(Publishers)
    /\ target = Cardinality(toLaunch \cup Launched)
    /\ reported + Len(pending) = published

\* HostProbe's bookkeeping of threads, queue and counters always agrees
\* (shell_screen.cpp:2959-3057 with host_probe_result_queue.cpp).
RoundInv ==
    /\ WorkersUnjoined
    /\ PendingFromWorkers
    /\ CountsAgree
    /\ (pc \in {"start", "input"} /\ workers = {}) => QueueIsEmpty

\* The abstract round: every target answered exactly once, then the end.
Round == INSTANCE ProbeRound WITH
            targets  <- toLaunch \cup Launched,
            answered <- Publishers \ PendingHosts,
            stopping <- pc \in {"joinForStream", "joinForExit", "done"}
RoundSpec == Round!Spec
=============================================================================
