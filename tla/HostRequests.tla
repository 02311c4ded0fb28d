---------------------------- MODULE HostRequests ----------------------------
(***************************************************************************)
(* One HTTP request of the client (http_get): connect with a timed poll,   *)
(* the TLS handshake, sending and receiving until the answer is framed,    *)
(* the host closes, or the time is over.  The flag of a cancelled pairing  *)
(* is looked at before every blocking call; other requests have no flag.   *)
(***************************************************************************)
EXTENDS GameHost

VARIABLES
    cancelled,  \* the flag, where the caller passes one
    net,        \* what the request does next
    call,       \* the request
    answer,     \* what the host answered
    got,        \* how much of the answer has arrived
    outcome     \* what http_get returned

requestVars == <<net, call, answer, got, outcome>>

Call   == [path : Path, tls : BOOLEAN, shown : BOOLEAN, flagged : BOOLEAN,
           app : App \cup {NoApp}, expected : Cert \cup {NoCert}]
NoCall == [path |-> "serverinfo", tls |-> FALSE, shown |-> FALSE,
           flagged |-> FALSE, app |-> NoApp, expected |-> NoCert]

RequestTypeOK ==
    /\ cancelled \in BOOLEAN
    /\ net \in {"none", "open", "connect", "handshake", "verify", "send", "receive", "done"}
    /\ call \in Call /\ answer \in Answer
    /\ got \in {"nothing", "head", "all"}
    /\ outcome \in {"failed", "whole", "cut"}

RequestInit ==
    /\ cancelled = FALSE
    /\ net = "none" /\ call = NoCall /\ answer = Silence
    /\ got = "nothing" /\ outcome = "failed"

\* The caller enters http_get.
Asks(request) ==
    /\ net' = "open" /\ call' = request
    /\ answer' = Silence /\ got' = "nothing" /\ outcome' = "failed"

\* Mutant: the flag is looked at when the request starts only.
StoppedAtStart == call.flagged /\ cancelled /\ net = "open"

\* pairing_cancel_requested
Stopped == call.flagged /\ cancelled

Returns(result) == net' = "done" /\ outcome' = result /\ UNCHANGED <<call, answer, got>>
Goes(position)  == net' = position /\ UNCHANGED <<call, answer, got, outcome>>

\* connect_socket creates the socket and starts to connect, ...
Open ==
    /\ net = "open"
    /\ IF Stopped THEN Returns("failed") ELSE Goes("connect") \/ Returns("failed")
    /\ UNCHANGED hostVars

\* ... and polls until the connection is there, is refused, or time is over.
Connect ==
    /\ net = "connect"
    /\ \/ ~ Stopped /\ Goes(IF call.tls THEN "handshake" ELSE "send")
       \/ Returns("failed")
    /\ UNCHANGED hostVars

\* SSL_connect.
Handshake ==
    /\ net = "handshake"
    /\ IF Stopped THEN Returns("failed") ELSE Goes("verify") \/ Returns("failed")
    /\ UNCHANGED hostVars

\* Mutant: the certificate is not compared.
VerifyAny ==
    /\ net = "verify"
    /\ Goes("send")
    /\ UNCHANGED hostVars

\* verify_tls_peer_certificate compares only if a certificate is expected.
Verify ==
    /\ net = "verify"
    /\ IF call.expected \in {NoCert, cert} THEN Goes("send") ELSE Returns("failed")
    /\ UNCHANGED hostVars

\* A request that is sent in full is handled by the host, heard of or not.
Send ==
    /\ net = "send"
    /\ IF Stopped
       THEN Returns("failed") /\ UNCHANGED hostVars
       ELSE \/ /\ Returns("failed")
               /\ UNCHANGED hostVars
            \/ \E reply \in Answer :
                   /\ Handles(call.path, call.tls, call.shown, call.app, reply)
                   /\ answer' = reply
                   /\ net' = "receive"
                   /\ UNCHANGED <<call, got, outcome>>

\* Bytes arrive; an answer with a length or in chunks is complete when all of
\* it is there, others when the host closes.  A broken length is an error.
Receive ==
    /\ net = "receive" /\ ~ Stopped
    /\ \/ /\ got = "nothing" /\ got' = "head"
          /\ UNCHANGED <<net, call, answer, outcome>>
       \/ /\ got = "head" /\ got' = "all"
          /\ UNCHANGED <<net, call, answer, outcome>>
       \/ got = "all" /\ Returns("whole")
       \/ Returns("failed")
    /\ UNCHANGED hostVars

\* The host closes: recv returns 0 and what has arrived counts as the answer
\* if its headers are complete.
Close ==
    /\ net = "receive" /\ ~ Stopped
    /\ Returns(CASE got = "nothing" -> "failed" [] got = "head" -> "cut" [] OTHER -> "whole")
    /\ UNCHANGED hostVars

\* The time limit of the socket ends a plain read.  Under TLS it makes the
\* read one to be tried again, and nothing changes.
GivesUp ==
    /\ net = "receive"
    /\ Stopped \/ ~ call.tls
    /\ Returns("failed")
    /\ UNCHANGED hostVars

Connected == net \in {"handshake", "verify", "send", "receive"}

Network == Receive \/ Close
Request == Open \/ Connect \/ Handshake \/ Verify \/ Send \/ GivesUp
=============================================================================
