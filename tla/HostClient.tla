----------------------------- MODULE HostClient -----------------------------
(***************************************************************************)
(* What the client asks of a host: pairing in five phases (pair_host), the *)
(* status (query_server_info), the list of apps (query_app_list), an image *)
(* (query_app_asset), and a stream (launch_or_resume_stream).  Each is a   *)
(* series of requests; the host changes between them and even during them. *)
(***************************************************************************)
EXTENDS HostRequests

CONSTANTS Ports,   \* build_serverinfo_port_candidates: how many there are
          Paths    \* build_app_asset_paths

ASSUME TriesAssumption == Ports \in Nat \ {0} /\ Paths \in Nat \ {0}

VARIABLES
    op,        \* the operation under way
    step,      \* the answer it waits for
    app,       \* the app it is about
    identity,  \* it has the client's identity
    left,      \* ports or paths left to try
    info,      \* HostPairingServerInfo
    plain,     \* the certificate the host sent in the first phase
    result,    \* what the last operation returned
    granted,   \* history: the host accepted the pairing secret
    vouched,   \* history: the certificate of the host that answered under TLS
               \* as to a known client
    refused    \* history: the host refused the client

clientVars  == <<op, step, app, identity, left, info, plain, result>>
historyVars == <<granted, vouched, refused>>
hostClientVars        == <<hostVars, cancelled, requestVars, clientVars, historyVars>>

Operation == {"pair", "info", "apps", "asset", "launch"}
Step      == Path \cup {"authorized", "none"}
Info      == [paired : BOOLEAN, game : App \cup {NoApp}, known : BOOLEAN, current : BOOLEAN]
Unknown   == [paired |-> FALSE, game |-> NoApp, known |-> FALSE, current |-> FALSE]
Outcome    == [of : Operation \cup {"none"}, already : BOOLEAN, apps : SUBSET App,
              says : {"none", "ok", "failed", "cancelled", "unpaired"}]
Says(w)   == [of |-> op, already |-> FALSE, apps |-> {}, says |-> w]

ClientTypeOK ==
    /\ HostTypeOK /\ RequestTypeOK
    /\ op \in Operation \cup {"idle"} /\ step \in Step
    /\ app \in App \cup {NoApp} /\ identity \in BOOLEAN
    /\ left \in Nat
    /\ info \in Info /\ plain \in Cert \cup {NoCert} /\ result \in Outcome
    /\ granted \in BOOLEAN /\ vouched \in Cert \cup {NoCert} /\ refused \in BOOLEAN

ClientInit ==
    /\ HostInit /\ RequestInit
    /\ op = "idle" /\ step = "none" /\ app = NoApp /\ identity = FALSE /\ left = 0
    /\ info = Unknown /\ plain = NoCert
    /\ result = [of |-> "none", already |-> FALSE, apps |-> {}, says |-> "none"]
    /\ granted = FALSE /\ vouched = NoCert /\ refused = FALSE

-----------------------------------------------------------------------------
(* Asking, and what the answer says.                                       *)

Plain(path) == [path |-> path, tls |-> FALSE, shown |-> FALSE, flagged |-> op = "pair",
                app |-> NoApp, expected |-> NoCert]
Secure(path, cert0) == [path |-> path, tls |-> TRUE, shown |-> identity,
                        flagged |-> op = "pair", app |-> app, expected |-> cert0]

AsksFor(s, request) ==
    /\ step' = s /\ Asks(request)
    /\ UNCHANGED <<op, app, identity, result>>
Ends(returned) ==
    /\ op' = "idle" /\ step' = "none" /\ result' = returned
    /\ net' = "none" /\ UNCHANGED <<call, answer, got, outcome, app, identity>>

\* The answer to a step; a body that was cut may lack what is looked for.
Concluded(s) == step = s /\ net = "done"
Parsed      == outcome # "failed" /\ answer.kind = "given"
Missing     == outcome # "whole" \/ answer.kind # "given"
Denied      == outcome # "failed" /\ answer.kind = "refused"

-----------------------------------------------------------------------------
(* The operations.                                                         *)

Begin(o) ==
    /\ op = "idle"
    /\ op' = o /\ app' \in (IF o = "launch" THEN App ELSE {NoApp})
    /\ identity' \in (IF o \in {"pair", "launch"} THEN {TRUE} ELSE BOOLEAN)
    /\ cancelled' = FALSE
    /\ step' = IF o = "asset" THEN "asset" ELSE "serverinfo"
    /\ left' = IF o = "asset" THEN Paths ELSE Ports
    /\ Asks([path |-> step', tls |-> o = "asset", shown |-> o = "asset" /\ identity',
             flagged |-> o = "pair", app |-> NoApp, expected |-> NoCert])
    /\ info' = Unknown /\ plain' = NoCert
    /\ result' = [of |-> "none", already |-> FALSE, apps |-> {}, says |-> "none"]
    /\ granted' = FALSE /\ vouched' = NoCert /\ refused' = FALSE
    /\ UNCHANGED hostVars

\* A phase starts with the client's own computations, which may fail.
Enters(phase) ==
    \/ AsksFor(phase, IF phase = "confirm" THEN Secure(phase, plain') ELSE Plain(phase))
    \/ Ends(Says("failed"))

\* What is done with the status, the client's authorization included.
Uses(status) ==
    \/ op = "info" /\ Ends(Says("ok"))
    \/ op = "apps" /\ AsksFor("applist", Secure("applist", NoCert))
    \/ op = "launch" /\ ~ status.paired /\ Ends(Says("unpaired"))
    \/ /\ op = "launch" /\ status.paired
       /\ LET path == IF status.game = app THEN "resume" ELSE "launch"
          IN  AsksFor(path, Secure(path, NoCert))

\* query_server_info_internal: one port after the other.
ServerInfo ==
    /\ Concluded("serverinfo")
    /\ \/ /\ Missing /\ left > 1
          /\ left' = left - 1
          /\ AsksFor("serverinfo", Plain("serverinfo"))
          /\ UNCHANGED <<info, plain>>
       \/ /\ Missing /\ left = 1
          /\ Ends(Says("failed"))
          /\ UNCHANGED <<left, info, plain>>
       \/ /\ Parsed
          /\ info' = [Unknown EXCEPT !.paired = answer.flag, !.game = answer.game]
          /\ IF op = "pair"
             THEN CASE cancelled -> Ends(Says("cancelled"))
                    [] ~ cancelled /\ info'.paired -> Ends([Says("ok") EXCEPT !.already = TRUE])
                    [] OTHER -> Enters("servercert")
             ELSE IF identity THEN AsksFor("authorized", Secure("serverinfo", NoCert))
             ELSE Uses(info')
          /\ UNCHANGED <<left, plain>>
    /\ UNCHANGED <<hostVars, cancelled, historyVars>>

\* Mutant: a status that cannot be had under TLS counts as a refusal.
AuthorizedOrNot ==
    /\ Concluded("authorized")
    /\ \/ Parsed /\ info' = [paired |-> answer.flag, game |-> answer.game, known |-> TRUE, current |-> TRUE]
       \/ Missing /\ info' = [info EXCEPT !.known = TRUE, !.paired = FALSE]
    /\ Uses(info')
    /\ UNCHANGED <<left, plain, hostVars, cancelled, historyVars>>

\* query_server_info asks again with the identity of the client.
Authorized ==
    /\ Concluded("authorized")
    /\ \/ /\ Parsed
          /\ info' = [paired |-> answer.flag, game |-> answer.game, known |-> TRUE, current |-> TRUE]
       \/ /\ Denied
          /\ info' = [info EXCEPT !.known = TRUE, !.paired = FALSE]
       \/ /\ outcome = "failed" \/ answer.kind = "useless" \/ outcome = "cut"
          /\ UNCHANGED info
    /\ Uses(info')
    /\ UNCHANGED <<left, plain, hostVars, cancelled, historyVars>>

\* Mutant: the host's "paired" is not looked at.
AcceptsAny(phase) == Parsed /\ (phase = "response" => answer.cert = plain)

\* A phase succeeds if the host says so and what it sends can be verified.
Succeeds(phase) == Parsed /\ answer.flag /\ (phase = "response" => answer.cert = plain)

Follows(phase) == CHOOSE p \in Phase :
    \E i \in 1 .. 4 : Phases[i] = phase /\ Phases[i + 1] = p

\* The five phases of pair_host; a request to cancel is looked at after each.
Pair(phase) ==
    /\ op = "pair" /\ Concluded(phase)
    /\ plain' = IF phase = "servercert" /\ Succeeds(phase) THEN answer.cert ELSE plain
    /\ \/ /\ ~ Succeeds(phase) \/ Missing
          /\ Ends(Says("failed"))
       \/ /\ Succeeds(phase)
          /\ CASE cancelled -> Ends(Says("cancelled"))
               [] ~ cancelled /\ phase = "confirm" -> Ends(Says("ok"))
               [] OTHER -> Enters(Follows(phase))
    /\ UNCHANGED <<left, info, hostVars, cancelled, historyVars>>

\* query_app_list: an element of the list is an app, as far as it arrived.
AppList ==
    /\ Concluded("applist")
    /\ \/ /\ outcome = "failed" \/ answer.kind = "useless" \/ outcome = "cut"
          /\ Ends(Says("failed"))
       \/ Denied /\ Ends(Says("unpaired"))
       \/ /\ Parsed
          /\ \E apps \in IF outcome = "whole" THEN {App} ELSE SUBSET App \ {{}} :
                 Ends([Says("ok") EXCEPT !.apps = apps])
    /\ UNCHANGED <<left, info, plain, hostVars, cancelled, historyVars>>

\* query_app_asset: one path after the other until there is an image.
Asset ==
    /\ Concluded("asset")
    /\ \/ /\ Parsed
          /\ Ends(Says("ok"))
          /\ UNCHANGED left
       \/ /\ ~ Parsed /\ left > 1
          /\ left' = left - 1
          /\ AsksFor("asset", Secure("asset", NoCert))
       \/ /\ ~ Parsed /\ left = 1
          /\ Ends(Says("failed"))
          /\ UNCHANGED left
    /\ UNCHANGED <<info, plain, hostVars, cancelled, historyVars>>

\* parse_stream_launch_response; a refusal in a body that was cut goes unseen.
LaunchApp ==
    /\ \E path \in {"launch", "resume"} : Concluded(path)
    /\ \/ Denied /\ Ends(Says("unpaired"))
       \/ (outcome = "failed" \/ answer.kind = "useless") /\ Ends(Says("failed"))
       \/ (Parsed \/ outcome = "cut") /\ Ends(Says("ok"))
    /\ UNCHANGED <<left, info, plain, hostVars, cancelled, historyVars>>

\* The shell sets the flag at any time during a pairing.
Cancel ==
    /\ op = "pair" /\ ~ cancelled
    /\ cancelled' = TRUE
    /\ UNCHANGED <<hostVars, requestVars, clientVars, historyVars>>

\* A step of the request under way, and what the host has said by it.
Asking(Step0) ==
    /\ Step0
    /\ LET said == net = "send" /\ net' = "receive" IN
       /\ granted' = (granted \/ (said /\ call.path = "secret" /\ answer'.flag))
       /\ vouched' = IF said /\ call.tls /\ answer'.kind = "given" THEN cert ELSE vouched
       /\ refused' = (refused \/ (said /\ answer'.kind = "refused"))
    /\ UNCHANGED <<cancelled, clientVars>>

\* A connection does not outlive the certificate it was made with.
HostAlone ==
    /\ HostChanges
    /\ IF cert' # cert /\ Connected THEN Returns("failed") ELSE UNCHANGED requestVars
    /\ UNCHANGED <<cancelled, clientVars, historyVars>>

Client == \/ ServerInfo \/ Authorized \/ AppList \/ Asset \/ LaunchApp
          \/ \E phase \in Phase : Pair(phase)

ClientNext == \/ \E o \in Operation : Begin(o)
        \/ Client \/ Asking(Request) \/ Asking(Network) \/ Cancel \/ HostAlone

\* The client goes on whenever it can; the host need not answer.
ClientFairness == WF_hostClientVars(Client) /\ WF_hostClientVars(Asking(Request))

ClientSpec == ClientInit /\ [][ClientNext]_hostClientVars /\ ClientFairness

-----------------------------------------------------------------------------

\* A pairing that succeeds was granted by the host, which a wrong PIN prevents,
\* and confirmed under TLS with the certificate the host sent in plain before.
PairedIsGranted ==
    result.of = "pair" /\ result.says = "ok" /\ ~ result.already =>
        granted /\ vouched = plain

\* Whether the client is authorized is known only from an answer the host gave
\* under TLS, and no failure of the network makes a list say "unpaired".
StatusIsAnswered ==
    /\ info.known => IF info.current THEN vouched # NoCert ELSE refused
    /\ result.of = "apps" /\ result.says = "unpaired" => refused

\* An operation that does not end waits for a host that is silent under TLS,
\* and nobody has asked it to stop.
StuckOnlyBySilence ==
    <>[](op # "idle") => <>[](net = "receive" /\ call.tls /\ ~ (call.flagged /\ cancelled))

-----------------------------------------------------------------------------
(* What the code's words promise and it does not keep: TLC finds             *)
(* counterexamples, which no run repeats.                                    *)

\* A list of apps that was retrieved successfully is the host's list.
AppListIsWhole == result.of = "apps" /\ result.says = "ok" => result.apps = App

\* Requests end when their time is over, encrypted ones too.
RequestsEnd == op # "idle" ~> op = "idle"
=============================================================================
