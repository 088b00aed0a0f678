---------------------------- MODULE HttpService ----------------------------
(***************************************************************************)
(* The life of a Go service process: func main of services/gateway and of  *)
(* services/billing, which differ in the drain time only.  Two goroutines, *)
(* one in ListenAndServe and one waiting for a signal, share an            *)
(* http.Server, and either of them can end the process.                    *)
(***************************************************************************)
EXTENDS Integers

CONSTANTS
    Requests,   \* requests that may arrive, each once
    DrainTime   \* the timeout of Shutdown, in units of time

ASSUME DrainTimeAssumption == DrainTime \in Nat

VARIABLES
    main,       \* "boot", "notified", "draining", "gone"
    listener,   \* "boot", "serving", "closed", "gone"
    stop,       \* a signal is in the buffer of the channel stop
    left,       \* what is left of the drain time
    exit,       \* "none" while the process runs, then "0", "1" or "signal"
    request     \* request[r]: "new", "open", "answered", "lost"

vars == <<main, listener, stop, left, exit, request>>

Init == /\ main = "boot"
        /\ listener = "boot"
        /\ stop = FALSE
        /\ left = DrainTime
        /\ exit = "none"
        /\ request = [r \in Requests |-> "new"]

\* The end of the process takes both goroutines and every open request.
End(status) == /\ exit' = status
               /\ main' = "gone"
               /\ listener' = "gone"
               /\ request' = [r \in Requests |->
                                 IF request[r] = "open" THEN "lost" ELSE request[r]]
               /\ UNCHANGED <<stop, left>>

\* ListenAndServe binds the address, or returns ErrServerClosed when Shutdown
\* came first.
Bind == /\ listener = "boot"
        /\ listener' = IF main = "draining" THEN "closed" ELSE "serving"
        /\ UNCHANGED <<main, stop, left, exit, request>>

\* Mutant: ErrServerClosed counts as a failure, too.
FatalWhenClosed(l) == l \in {"boot", "serving", "closed"}

\* err != nil && !errors.Is(err, http.ErrServerClosed): the address is taken,
\* or accept fails for good.
Fatal(l) == l \in {"boot", "serving"}

ListenFails == Fatal(listener) /\ End("1")

Open(r) == /\ listener = "serving"
           /\ request[r] = "new"
           /\ request' = [request EXCEPT ![r] = "open"]
           /\ UNCHANGED <<main, listener, stop, left, exit>>

\* The handler returns; when it does depends on the handler and the client.
Answer(r) == /\ request[r] = "open"
             /\ request' = [request EXCEPT ![r] = "answered"]
             /\ UNCHANGED <<main, listener, stop, left, exit>>

Notify == /\ main = "boot"
          /\ main' = "notified"
          /\ UNCHANGED <<listener, stop, left, exit, request>>

\* From signal.Notify to the end signals go to the channel.
Caught(m) == m \in {"notified", "draining"}

\* The channel buffers one signal and drops the others.
SignalCaught == /\ Caught(main)
                /\ stop' = TRUE
                /\ UNCHANGED <<main, listener, left, exit, request>>

\* What SIGINT and SIGTERM do to a process that does not catch them.
SignalKills == /\ main # "gone"
               /\ ~Caught(main)
               /\ End("signal")

\* <-stop, then Shutdown closes the listener and the drain time starts.
BeginShutdown == /\ main = "notified"
                 /\ stop
                 /\ stop' = FALSE
                 /\ main' = "draining"
                 /\ listener' = IF listener = "serving" THEN "closed" ELSE listener
                 /\ UNCHANGED <<left, exit, request>>

TimePasses == /\ main = "draining"
              /\ left > 0
              /\ left' = left - 1
              /\ UNCHANGED <<main, listener, stop, exit, request>>

Idle == \A r \in Requests : request[r] # "open"

\* Mutant: Shutdown runs under a context that has no deadline.
DrainedOnlyIdle == Idle

\* Mutant: the deadline has passed before Shutdown is called.
DrainedAtOnce == TRUE

\* Shutdown returns: every connection is idle, or the deadline has passed.
Drained == Idle \/ left = 0

\* An error of Shutdown is only logged: main returns, the status is 0.
MainReturns == /\ main = "draining"
               /\ Drained
               /\ End("0")

Next == \/ Bind
        \/ ListenFails
        \/ \E r \in Requests : Open(r)
        \/ \E r \in Requests : Answer(r)
        \/ Notify
        \/ SignalCaught
        \/ SignalKills
        \/ BeginShutdown
        \/ TimePasses
        \/ MainReturns

Spec == Init /\ [][Next]_vars

-----------------------------------------------------------------------------

TypeOK == /\ main \in {"boot", "notified", "draining", "gone"}
          /\ listener \in {"boot", "serving", "closed", "gone"}
          /\ stop \in BOOLEAN
          /\ left \in 0..DrainTime
          /\ exit \in {"none", "0", "1", "signal"}
          /\ request \in [Requests -> {"new", "open", "answered", "lost"}]

\* Once the server drains, nothing ends the process while a request is open
\* and drain time is left: not a second signal, and not the ErrServerClosed
\* that Shutdown makes ListenAndServe return to the other goroutine.
DrainIsNotCut == [][main = "draining" /\ main' = "gone" => Idle \/ left = 0]_vars

\* A process that ended by main's return has lost a request only after the
\* whole drain time, and one that lost a request earlier says so in its status.
LossesHaveAReason ==
    \A r \in Requests : request[r] = "lost" => exit \in {"1", "signal"} \/ left = 0

\* A signal that was caught ends the process, even if no handler returns.
SignalEndsProcess == stop ~> exit # "none"

\* The inductive invariant: the goroutines end with the process, the listener
\* is closed while the server drains, requests need a listener, and they are
\* lost at the end only.
Lifecycle == /\ (main = "gone") = (exit # "none")
             /\ (listener = "gone") = (exit # "none")
             /\ main = "draining" => listener # "serving"
             /\ main = "boot" => ~stop
             /\ exit = "none" => \A r \in Requests : request[r] # "lost"
             /\ listener = "boot" => \A r \in Requests : request[r] = "new"

IInv == TypeOK /\ Lifecycle /\ LossesHaveAReason
=============================================================================
