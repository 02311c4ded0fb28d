-------------------------- MODULE PairingAttempts --------------------------
(***************************************************************************)
(* Pairing attempts: background threads that find or make the client       *)
(* identity, save it in three files and pair with a host, and the shell    *)
(* that starts, cancels, reaps and joins them while it also deletes the    *)
(* identity and asks hosts for their status.  A cancelled attempt is       *)
(* retired: its thread runs on until it next looks at the flag, next to    *)
(* the thread of the following attempt.  A host may fall silent in the     *)
(* request under TLS, whose wait only cancellation ends.                   *)
(***************************************************************************)
EXTENDS Integers, FiniteSets

CONSTANTS Attempt,    \* the attempts that may be made, each at most once
          Host,       \* the hosts to pair with
          NoAttempt,  \* no attempt
          NoHost,     \* the target of an attempt not made yet
          Original    \* the identity saved before the program started

ASSUME AttemptAssumption ==
    /\ NoAttempt \notin Attempt
    /\ Original \notin Attempt
    /\ NoHost \notin Host
    /\ {"missing", "empty", "none"} \cap (Attempt \cup {Original}) = {}

VARIABLES
    shell,       \* the shell runs, joins its tasks or has ended
    onPage,      \* the pairing page is open
    paired,      \* hosts the shell holds as paired
    deleted,     \* hosts.pairingResetEndpoints: removed here, to be paired by hand
    asked,       \* source of the identity the status queries in flight present
    active,      \* PairingTaskState::activeAttempt
    retired,     \* PairingTaskState::retiredAttempts
    cancelled,   \* attempts with cancelRequested
    target,      \* the host of an attempt
    stage,       \* what the thread of an attempt does next
    at,          \* position in the identity files while loading or saving
    identity,    \* the identity an attempt presents
    success,     \* attempts whose result is a success
    file,        \* uniqueid.dat, client.pem and key.pem
    accepted,    \* external: the identities a host has accepted
    settled      \* history: no access to the identity files failed, no two uses
                 \* of the identity overlapped, and the user deleted no file of
                 \* it while hosts were paired

pageVars     == <<shell, onPage, paired, deleted, asked>>
shellVars    == <<pageVars, active, retired, cancelled, target>>
threadVars   == <<stage, at, identity, success>>
vars         == <<shellVars, threadVars, file, accepted, settled>>

Part     == {"uid", "cert", "key"}
PartAt   == <<"uid", "cert", "key">>
Source   == Attempt \cup {Original}
Identity == [Part -> Source]
MadeBy(s) == [p \in Part |-> s]
NoFiles  == [p \in Part |-> "missing"]

Stage    == {"unused", "load", "generate", "open", "write", "serverinfo",
             "handshake", "secret", "confirm", "silent", "completed", "joined"}

TypeOK ==
    /\ shell \in {"running", "streaming", "exiting", "off"}
    /\ onPage \in BOOLEAN
    /\ paired \subseteq Host
    /\ deleted \subseteq Host
    /\ asked \in Source \cup {"none"}
    /\ active \in Attempt \cup {NoAttempt}
    /\ retired \subseteq Attempt
    /\ cancelled \subseteq Attempt
    /\ target \in [Attempt -> Host \cup {NoHost}]
    /\ stage \in [Attempt -> Stage]
    /\ at \in [Attempt -> 1 .. 3]
    /\ identity \in [Attempt -> Identity]
    /\ success \subseteq Attempt
    /\ file \in [Part -> Source \cup {"missing", "empty"}]
    /\ accepted \in [Host -> SUBSET Identity]
    /\ settled \in BOOLEAN

Alive(a)         == stage[a] \notin {"unused", "completed", "joined"}
NeedsIdentity(a) == stage[a] \in {"load", "generate", "open", "write"}
Preparing        == \E a \in Attempt : NeedsIdentity(a)
InUse            == Preparing \/ asked # "none"
Saving           == \E a \in Attempt : stage[a] \in {"open", "write"}

Init ==
    /\ shell = "running" /\ onPage = FALSE
    /\ paired \in SUBSET Host /\ deleted = {} /\ asked = "none"
    /\ file \in {NoFiles, MadeBy(Original)}
    /\ paired # {} => file = MadeBy(Original)
    /\ accepted = [h \in Host |-> IF h \in paired THEN {MadeBy(Original)} ELSE {}]
    /\ active = NoAttempt /\ retired = {} /\ cancelled = {}
    /\ target = [a \in Attempt |-> NoHost]
    /\ stage = [a \in Attempt |-> "unused"] /\ at = [a \in Attempt |-> 1]
    /\ identity = [a \in Attempt |-> MadeBy(Original)] /\ success = {}
    /\ settled = TRUE

-----------------------------------------------------------------------------
(* The thread of an attempt: run_pairing_task.                             *)

Goes(a, s)  == stage' = [stage EXCEPT ![a] = s]
Ends(a, ok) == /\ Goes(a, "completed")
               /\ success' = IF ok THEN success \cup {a} ELSE success
Thread(a)   == UNCHANGED shellVars

Position(a, n)       == at' = [at EXCEPT ![a] = n]
NextFile(a, s, last) == IF at[a] = 3 THEN Goes(a, last) /\ Position(a, 1)
                        ELSE Goes(a, s) /\ Position(a, at[a] + 1)

\* load_client_identity reads one file after the other.  An identity that is
\* missing, empty or unreadable is replaced by a new one.
Load(a) ==
    /\ stage[a] = "load"
    /\ LET p == PartAt[at[a]] IN
       \/ /\ file[p] \in Source
          /\ identity' = [identity EXCEPT ![a][p] = file[p]]
          /\ NextFile(a, "load", "serverinfo")
          /\ UNCHANGED settled
       \/ /\ Goes(a, "generate") /\ Position(a, 1)
          /\ settled' = (settled /\ file[p] \notin Source)
          /\ UNCHANGED identity
    /\ Thread(a)
    /\ UNCHANGED <<success, file, accepted>>

\* create_pairing_identity
Generate(a) ==
    /\ stage[a] = "generate"
    /\ \/ /\ Goes(a, "open")
          /\ identity' = [identity EXCEPT ![a] = MadeBy(a)]
          /\ UNCHANGED success
       \/ Ends(a, FALSE) /\ UNCHANGED identity
    /\ Thread(a)
    /\ UNCHANGED <<at, file, accepted, settled>>

\* save_client_identity: each file is emptied when it is opened, then written.
Open(a) ==
    /\ stage[a] = "open"
    /\ \/ /\ Goes(a, "write")
          /\ file' = [file EXCEPT ![PartAt[at[a]]] = "empty"]
          /\ UNCHANGED <<at, success, settled>>
       \/ Ends(a, FALSE) /\ Position(a, 1) /\ settled' = FALSE /\ UNCHANGED file
    /\ Thread(a)
    /\ UNCHANGED <<identity, accepted>>

Write(a) ==
    /\ stage[a] = "write"
    /\ \/ /\ file' = [file EXCEPT ![PartAt[at[a]]] = a]
          /\ NextFile(a, "open", "serverinfo")
          /\ UNCHANGED <<success, settled>>
       \/ Ends(a, FALSE) /\ Position(a, 1) /\ settled' = FALSE /\ UNCHANGED file
    /\ Thread(a)
    /\ UNCHANGED <<identity, accepted>>

\* pair_host: before each request the thread looks whether it was cancelled.
Request(a, s) == /\ stage[a] = s
                 /\ Thread(a)
                 /\ UNCHANGED <<at, identity, file, settled>>

Refused(a) == Ends(a, FALSE) /\ UNCHANGED accepted

\* The host knows a client it paired with by its unique ID.
Knows(h, id) == \E i \in accepted[h] : i["uid"] = id["uid"]

ServerInfo(a) ==
    /\ Request(a, "serverinfo")
    /\ \/ Refused(a)
       \/ /\ a \notin cancelled
          /\ IF Knows(target[a], identity[a]) THEN Ends(a, TRUE)
             ELSE Goes(a, "handshake") /\ UNCHANGED success
          /\ UNCHANGED accepted

\* Mutant: the secret is not sent.
HandshakeOnly(a) ==
    /\ Request(a, "handshake")
    /\ \/ Refused(a)
       \/ a \notin cancelled /\ Goes(a, "confirm") /\ UNCHANGED <<success, accepted>>

Handshake(a) ==
    /\ Request(a, "handshake")
    /\ \/ Refused(a)
       \/ a \notin cancelled /\ Goes(a, "secret") /\ UNCHANGED <<success, accepted>>

\* The host accepts the certificate once the secret is signed by its key; its
\* answer may be lost.
Secret(a) ==
    /\ Request(a, "secret")
    /\ \/ Refused(a)
       \/ /\ a \notin cancelled
          /\ identity[a]["cert"] = identity[a]["key"]
          /\ accepted' = [accepted EXCEPT ![target[a]] = @ \cup {identity[a]}]
          /\ \/ Goes(a, "confirm") /\ UNCHANGED success
             \/ Ends(a, FALSE)

\* The only request under TLS.
Confirm(a) ==
    /\ Request(a, "confirm")
    /\ \/ Refused(a)
       \/ a \notin cancelled /\ Ends(a, TRUE) /\ UNCHANGED accepted
       \/ a \notin cancelled /\ Goes(a, "silent") /\ UNCHANGED <<success, accepted>>

\* recv_all_ssl: after each timeout of the socket the thread looks whether it
\* was cancelled and reads again, until the host answers or closes.
Silence(a) ==
    /\ Request(a, "silent")
    /\ \/ Refused(a)
       \/ Ends(a, TRUE) /\ UNCHANGED accepted

Run(a) == \/ Load(a) \/ Generate(a) \/ Open(a) \/ Write(a)
          \/ ServerInfo(a) \/ Handshake(a) \/ Secret(a) \/ Confirm(a) \/ Silence(a)

-----------------------------------------------------------------------------
(* The shell.                                                              *)

Ready(a)  == a # NoAttempt /\ stage[a] = "completed"
Reapable  == {a \in retired : Ready(a)}
Join(set) == stage' = [a \in Attempt |-> IF a \in set THEN "joined" ELSE stage[a]]

\* Mutant: retired attempts are only looked at when the active one is ready.
FinishActiveOnly ==
    /\ shell = "running" /\ Ready(active)
    /\ retired' = retired \ Reapable
    /\ Join(Reapable \cup {active})
    /\ active' = NoAttempt
    /\ IF active \in success
       THEN paired' = paired \cup {target[active]} /\ deleted' = deleted \ {target[active]}
       ELSE paired' = paired \ {target[active]} /\ UNCHANGED deleted
    /\ onPage' = (onPage /\ active \notin success)
    /\ UNCHANGED <<shell, asked, cancelled, target, at, identity, success, file,
                   accepted, settled>>

\* finish_pairing_task_if_ready: retired attempts that are ready are joined
\* and forgotten, then the active one is joined and its result applied.
Finish ==
    /\ shell = "running"
    /\ Reapable # {} \/ Ready(active)
    /\ retired' = retired \ Reapable
    /\ IF Ready(active)
       THEN /\ Join(Reapable \cup {active})
            /\ active' = NoAttempt
            /\ IF active \in success
               THEN /\ paired' = paired \cup {target[active]} /\ onPage' = FALSE
                    /\ deleted' = deleted \ {target[active]}
               ELSE paired' = paired \ {target[active]} /\ UNCHANGED <<onPage, deleted>>
       ELSE Join(Reapable) /\ UNCHANGED <<active, paired, onPage, deleted>>
    /\ UNCHANGED <<shell, asked, cancelled, target, at, identity, success, file,
                   accepted, settled>>

\* pair_host_if_requested.  The page is not open yet, so no attempt is active
\* and the branch that retires it is not reached.  When the thread cannot be
\* created the host is marked as not paired.
StartPairing(a, h) ==
    /\ shell = "running" /\ ~ onPage
    /\ onPage' = TRUE
    /\ stage[a] = "unused"
    /\ retired' = retired \ Reapable
    /\ \/ /\ active' = a
          /\ target' = [target EXCEPT ![a] = h]
          /\ stage' = [b \in Attempt |-> IF b = a THEN "load"
                                         ELSE IF b \in Reapable THEN "joined" ELSE stage[b]]
          /\ settled' = (settled /\ ~ Preparing)
          /\ UNCHANGED paired
       \/ /\ paired' = paired \ {h}
          /\ Join(Reapable)
          /\ UNCHANGED <<active, target, settled>>
    /\ UNCHANGED <<shell, deleted, asked, cancelled, at, identity, success, file,
                   accepted>>

\* Mutant: a cancelled attempt is dropped at once.
CancelAndDrop ==
    /\ shell = "running" /\ onPage
    /\ onPage' = FALSE
    /\ active' = NoAttempt
    /\ cancelled' = IF active # NoAttempt THEN cancelled \cup {active} ELSE cancelled
    /\ UNCHANGED <<shell, paired, deleted, asked, retired, target, threadVars, file,
                   accepted, settled>>

\* Leaving the page: cancel_pairing_if_requested.
Cancel ==
    /\ shell = "running" /\ onPage
    /\ onPage' = FALSE
    /\ active' = NoAttempt
    /\ IF active # NoAttempt
       THEN cancelled' = cancelled \cup {active} /\ retired' = retired \cup {active}
       ELSE UNCHANGED <<cancelled, retired>>
    /\ UNCHANGED <<shell, paired, deleted, asked, target, threadVars, file, accepted,
                   settled>>

taskVars == <<active, retired, cancelled, target, threadVars, accepted>>

\* A probe, a fetch of apps or a connection test loads the identity on file
\* and asks hosts for their status; without a complete identity it asks as an
\* unknown client.
Complete(f) == \A p \in Part : f[p] \in Source
AskStatus ==
    /\ shell = "running" /\ asked = "none"
    /\ Complete(file) /\ file["cert"] = file["key"]
    /\ asked' = file["cert"]
    /\ settled' = (settled /\ ~ Saving)
    /\ UNCHANGED <<shell, onPage, paired, deleted, taskVars, file>>

\* update_host_pairing_from_server_info: a host that answers under TLS knows
\* the certificate, and counts as paired unless it was removed here.
Paired(h) ==
    /\ shell = "running" /\ h \notin deleted
    /\ \E i \in accepted[h] : i["cert"] = asked
    /\ paired' = paired \cup {h}
    /\ UNCHANGED <<shell, onPage, deleted, asked, taskVars, file, settled>>

\* A host that refuses this client, in a status or a list of apps, or one that
\* was removed here and is back.
Unpaired(h) ==
    /\ shell = "running" /\ h \in paired
    /\ paired' = paired \ {h}
    /\ UNCHANGED <<shell, onPage, deleted, asked, taskVars, file, settled>>

\* The last query has ended, its answer applied or not.
StatusTaken ==
    /\ asked # "none"
    /\ asked' = "none"
    /\ UNCHANGED <<shell, onPage, paired, deleted, taskVars, file, settled>>

\* Removing identity files under a thread or a query that uses them.
RemoveFiles(gone, asMeant) ==
    /\ file' = [p \in Part |-> IF p \in gone THEN "missing" ELSE file[p]]
    /\ settled' = (settled /\ ~ InUse /\ asMeant)

\* delete_client_identity removes the files in order until one cannot be.
Removed(n) == {PartAt[i] : i \in 1 .. n}

\* delete_host_data_if_requested: with the last paired host goes the identity.
DeleteHost(h) ==
    /\ shell = "running" /\ ~ onPage /\ h \in paired
    /\ paired' = paired \ {h}
    /\ deleted' = deleted \cup {h}
    /\ IF paired' = {}
       THEN \E n \in 0 .. 3 : RemoveFiles(Removed(n), n = 3)
       ELSE UNCHANGED <<file, settled>>
    /\ UNCHANGED <<shell, onPage, asked, taskVars>>

\* delete_saved_file_if_requested: the settings page deletes any one file.
DeleteFile(p) ==
    /\ shell = "running" /\ ~ onPage /\ file[p] # "missing"
    /\ RemoveFiles({p}, paired = {})
    /\ UNCHANGED <<pageVars, taskVars>>

\* Mutant: the pages keep their hosts.
FactoryResetKeepsHosts ==
    /\ shell = "running" /\ ~ onPage
    /\ \E gone \in SUBSET Part :
          RemoveFiles(gone, gone = Part)
    /\ UNCHANGED <<pageVars, taskVars>>

\* factory_reset_if_requested deletes the listed files in the order of their
\* names, the three of the identity last, and keeps the hosts when one cannot
\* be deleted.  A file whose size cannot be read is not listed and stays.
FactoryReset ==
    /\ shell = "running" /\ ~ onPage
    /\ \E gone \in SUBSET Part :
          /\ RemoveFiles(gone, gone = Part)
          /\ \/ paired' = {} /\ deleted' = {}
             \/ gone # Part /\ UNCHANGED <<paired, deleted>>
    /\ UNCHANGED <<shell, onPage, asked, taskVars>>

\* finalize_shell_tasks, before a stream and at the end: the active attempt is
\* waited for as it is, without being told to stop.
BeginJoin ==
    /\ shell = "running"
    /\ \/ shell' = "streaming" /\ ~ onPage
       \/ shell' = "exiting"
    /\ active' = NoAttempt
    /\ retired' = IF active = NoAttempt THEN retired ELSE retired \cup {active}
    /\ UNCHANGED <<onPage, paired, deleted, asked, cancelled, target, threadVars, file,
                   accepted, settled>>

Joining == shell \in {"streaming", "exiting"}
EndJoin ==
    /\ Joining
    /\ retired \subseteq Reapable /\ asked = "none"
    /\ shell' = IF shell = "streaming" THEN "running" ELSE "off"
    /\ Join(retired) /\ retired' = {}
    /\ UNCHANGED <<onPage, paired, deleted, asked, active, cancelled, target, at, identity, success,
                   file, accepted, settled>>

Off == shell = "off" /\ UNCHANGED vars

Shell == \/ Finish \/ Cancel \/ BeginJoin \/ EndJoin \/ Off
         \/ AskStatus \/ StatusTaken \/ FactoryReset
         \/ \E p \in Part : DeleteFile(p)
ForHost(h) == Paired(h) \/ Unpaired(h) \/ DeleteHost(h)

Next == \/ \E a \in Attempt : Run(a)
        \/ \E a \in Attempt, h \in Host : StartPairing(a, h)
        \/ \E h \in Host : ForHost(h)
        \/ Shell

\* Nobody ends the wait of an attempt for a silent host but the host.
Held(a)     == stage[a] = "silent" /\ a \notin cancelled
OnItsOwn(a) == ~ Held(a) /\ Run(a)

\* Threads are scheduled; the requests in plain and a cancelled request under
\* TLS end by the timeouts of the sockets.  The shell's frames finish what is
\* ready, and a join returns once its threads have ended.
Fairness == (\A a \in Attempt : WF_vars(OnItsOwn(a))) /\ WF_vars(Finish) /\ WF_vars(EndJoin)

Spec == Init /\ [][Next]_vars /\ Fairness

-----------------------------------------------------------------------------

\* No attempt is dropped while its thread may still use it.
ThreadsOwned ==
    \A a \in Attempt : stage[a] \notin {"unused", "joined"} => a \in retired \cup {active}

\* The attempt whose result will be applied belongs to the open page and has
\* not been cancelled.
ActiveOnPage ==
    active # NoAttempt => onPage /\ active \notin cancelled \cup retired

\* A result is a success only if the host accepted the client.
SuccessIsAccepted ==
    \A a \in success : Knows(target[a], identity[a])

\* Unless an identity file could not be read, written or removed, two uses of
\* the identity overlapped, or the user deleted an identity file while hosts
\* were paired, every paired host has accepted the identity on file, whether it
\* was paired here or said so in a status (shell_screen.cpp:2225-2231).
IdentityAgrees == settled => \A h \in paired : file \in accepted[h]

\* Again and again the threads of all cancelled attempts have ended, whatever
\* the hosts do, every retired attempt is joined and no join of all tasks, before
\* a stream or at the end, is waiting.  Only a host silent under TLS holds such
\* a join: it waits for an attempt nobody cancelled, or for a status query
\* (host_pairing.cpp:1616-1618).  An attempt is cancelled, retired and silent
\* at most once, so a thread that never ends, or is never joined, breaks this.
JoinHeld    == Joining /\ ((\E a \in retired : Held(a)) \/ asked # "none")
AllJoined   == retired = {} /\ ~ Joining
AttemptsEnd == []<>((\A a \in cancelled : ~ Alive(a)) /\ (AllJoined \/ JoinHeld))
=============================================================================
