------------------------------ MODULE GameHost ------------------------------
(***************************************************************************)
(* The machine the client talks to, as far as the client can tell: whether *)
(* it trusts the client's certificate, the certificate it presents itself, *)
(* how far a pairing has come and which app runs.  It is not part of the   *)
(* program; its answers are those the client's code is written for.        *)
(***************************************************************************)
EXTENDS Integers, FiniteSets

CONSTANTS App,     \* the apps the host offers
          Cert,    \* the certificates the host has had
          NoApp, NoCert

ASSUME HostAssumption == NoApp \notin App /\ NoCert \notin Cert /\ App # {}

VARIABLES
    trusted,   \* the client's certificate is accepted
    cert,      \* the host's own certificate
    pairing,   \* the last phase of a pairing the host has accepted
    pinRight,  \* the user typed the PIN that the client shows
    running    \* the app that is running

hostVars == <<trusted, cert, pairing, pinRight, running>>

\* The requests of a pairing, in the order of its phases, and the others.
Phases == <<"servercert", "challenge", "response", "secret", "confirm">>
Phase  == {Phases[i] : i \in DOMAIN Phases}
Path   == Phase \cup {"serverinfo", "applist", "asset", "launch", "resume"}

\* What an answer says: a status of HTTP or in the body that calls the client
\* unpaired; what is of no use, any other status among it; or what was asked
\* for.  flag is PairStatus or paired.
Answer == [kind : {"refused", "useless", "given"}, flag : BOOLEAN,
           game : App \cup {NoApp}, cert : Cert \cup {NoCert}]
Silence == [kind |-> "useless", flag |-> FALSE, game |-> NoApp, cert |-> NoCert]

HostTypeOK ==
    /\ trusted \in BOOLEAN /\ cert \in Cert
    /\ pairing \in Phase \cup {"none"}
    /\ pinRight \in BOOLEAN /\ running \in App \cup {NoApp}

HostInit ==
    /\ trusted \in BOOLEAN /\ cert \in Cert
    /\ pairing = "none" /\ pinRight = FALSE
    /\ running \in App \cup {NoApp}

Given(flag) == [Silence EXCEPT !.kind = "given", !.flag = flag]
Refused     == [Silence EXCEPT !.kind = "refused"]

\* A phase is accepted after the one before it; the host compares the hash it
\* was sent with the secret, and so notices a wrong PIN only then.
Accepts(phase) ==
    \/ phase = "servercert"
    \/ phase = "challenge" /\ pairing = "servercert"
    \/ phase = "response"  /\ pairing = "challenge"
    \/ phase = "secret"    /\ pairing = "response" /\ pinRight
    \/ phase = "confirm"   /\ trusted

\* A plain request may be told the pairing status or nothing of it; one under
\* TLS is refused unless it shows the certificate that is trusted.
Handles(path, tls, shown, app, answer) ==
    LET known == trusted /\ shown IN
    \/ /\ answer = Silence
       /\ UNCHANGED hostVars
    \/ /\ path = "serverinfo"
       /\ answer \in {[Given(flag) EXCEPT !.game = running] :
                        flag \in IF tls THEN {TRUE} ELSE {FALSE, trusted}}
       /\ tls => known
       /\ UNCHANGED hostVars
    \/ /\ tls /\ ~ known
       /\ answer = Refused
       /\ UNCHANGED hostVars
    \/ /\ path \in {"applist", "asset"} /\ known
       /\ answer = Given(TRUE)
       /\ UNCHANGED hostVars
    \/ /\ path \in {"launch", "resume"} /\ known
       /\ path = "resume" => running = app
       /\ answer = Given(TRUE)
       /\ running' = app
       /\ UNCHANGED <<trusted, cert, pairing, pinRight>>
    \/ /\ path \in Phase /\ ~ Accepts(path)
       /\ answer = Given(FALSE)
       /\ pairing' = "none"
       /\ UNCHANGED <<trusted, cert, pinRight, running>>
    \/ /\ path \in Phase /\ Accepts(path)
       /\ answer = [Given(TRUE) EXCEPT !.cert = cert]
       /\ pairing' = path
       /\ pinRight' \in IF path = "servercert" THEN BOOLEAN ELSE {pinRight}
       /\ trusted' = (trusted \/ path = "secret")
       /\ UNCHANGED <<cert, running>>

\* The user removes the client at the host, the host gets a new certificate and
\* may forget its clients with the old one, or an app ends.
HostChanges ==
    \/ /\ trusted' = FALSE
       /\ UNCHANGED <<cert, pairing, pinRight, running>>
    \/ /\ cert' \in Cert \ {cert}
       /\ trusted' \in {trusted, FALSE} /\ pairing' = "none" /\ running' = NoApp
       /\ UNCHANGED pinRight
    \/ /\ running # NoApp /\ running' = NoApp
       /\ UNCHANGED <<trusted, cert, pairing, pinRight>>
=============================================================================
