CONSTANTS
    Attempt = {a1, a2}
    Host = {h1}
    NoAttempt = NoAttempt
    NoHost = NoHost
    Original = Original
SPECIFICATION Spec
INVARIANTS
    ThreadsOwned
    SuccessIsAccepted
    IdentityAgrees
PROPERTIES
    AttemptsEnd
VIEW NoRest
