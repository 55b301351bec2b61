------------------------------ MODULE SipAgent ------------------------------
(***************************************************************************)
(* Registration of the camera with a GB28181 platform over SIP on UDP:     *)
(* gb28181::SipAgent and SipTransport (src/src/gb28181/sip_agent.cpp)      *)
(* inside gb28181::Gb28181Manager (gb28181_manager.cpp).                   *)
(*                                                                         *)
(* Three threads meet here: the caller of the manager's Start and Stop,    *)
(* which holds mutex_ throughout both; the io thread, which runs the SIP   *)
(* handlers and timers one at a time and takes mutex_ in the registration  *)
(* callbacks; and an application thread that asks for a keepalive or a     *)
(* report without any lock.                                                *)
(*                                                                         *)
(* The network loses, delays and repeats datagrams: once a request has     *)
(* left, a response of any kind may arrive at any time, any number of      *)
(* times, or never.  Message contents are left out, and so is the digest   *)
(* that an authorised REGISTER carries.                                    *)
(***************************************************************************)
EXTENDS Naturals

CONSTANTS
  Restarts,             \* bound: calls of Start after the first
  CSeqs,                \* bound: cseq_ is counted modulo CSeqs
  MaxDue,               \* bound: handlers of one kind of timer in the queue
  Manual                \* an application thread sends keepalives and reports

ASSUME ConstantsAssumption ==
  /\ Restarts \in Nat
  /\ CSeqs \in Nat \ {0}
  /\ MaxDue \in Nat \ {0}
  /\ Manual \in BOOLEAN

VARIABLES
  main,                 \* where the caller of Start and Stop is
  starts,               \* how often Start has been called
  stopped,              \* io_context_.stop() has been called
  io,                   \* where the io thread is
  transport,            \* the UDP socket: "none", "open" or "closed"
  running,              \* SipAgent::running_
  registered,           \* SipAgent::registered_
  cseq,                 \* cseq_
  asked,                \* some request has left for the platform
  keepalive,            \* keepalive_timer_ has a wait pending
  keepalive_due,        \* handlers of expired keepalive waits still to run
  retry,                \* register_retry_timer_ has a wait pending
  retry_due,            \* handlers of expired retry waits still to run
  mgr_registered        \* Gb28181Manager::registered_

mainVars  == <<main, starts, stopped>>
agentVars == <<transport, running>>
sendVars  == <<cseq, asked>>
retryVars == <<retry, retry_due>>
timerVars == <<keepalive, keepalive_due, retryVars>>

vars == <<mainVars, io, agentVars, registered, sendVars, timerVars, mgr_registered>>

Init ==
  /\ main = "down" /\ starts = 0 /\ stopped = FALSE
  /\ io = "none"
  /\ transport = "none" /\ running = FALSE /\ registered = FALSE
  /\ cseq = 1 % CSeqs /\ asked = FALSE
  /\ keepalive = FALSE /\ keepalive_due = 0
  /\ retry = FALSE /\ retry_due = 0
  /\ mgr_registered = FALSE

\* Gb28181Manager::mutex_ is held by the caller inside Start and Stop.  The io
\* thread holds it only within one step.
Locked == main \notin {"down", "up"}

-----------------------------------------------------------------------------
(* Sending.                                                                *)

\* The request takes the next cseq_ and leaves, unless send_to fails or the
\* socket is closed; no caller looks at the result.
Sends ==
  /\ cseq' = (cseq + 1) % CSeqs
  /\ asked' \in {asked, asked \/ transport = "open"}

\* SendRegister and SendMessage do nothing in an agent that does not run.
SendRegister == IF running THEN Sends ELSE UNCHANGED sendVars

-----------------------------------------------------------------------------
(* Start and Stop of the manager, with the agent's calls inside them.      *)

\* A second io thread finds the io_context still stopped, and ends at once.
StartTransport ==
  /\ main = "down" /\ starts <= Restarts
  /\ main' = "starting"
  /\ starts' = starts + 1
  /\ transport' = "open"
  /\ io' = IF stopped THEN "ended" ELSE "idle"
  /\ UNCHANGED <<stopped, running, registered, sendVars, timerVars, mgr_registered>>

StartRegisters ==
  /\ main = "starting"
  /\ main' = "up"
  /\ running' = TRUE
  /\ Sends
  /\ UNCHANGED <<starts, stopped, io, transport, registered, timerVars,
                 mgr_registered>>

StopBegins ==
  /\ main = "up"
  /\ main' = "stopping"
  /\ running' = FALSE
  /\ UNCHANGED <<starts, stopped, io, transport, registered, sendVars, timerVars,
                 mgr_registered>>

\* The REGISTER with Expires: 0, followed by a sleep of 100 ms.
StopUnregisters ==
  /\ main = "stopping"
  /\ main' = "sleeping"
  /\ registered' = FALSE
  /\ Sends
  /\ UNCHANGED <<starts, stopped, io, agentVars, timerVars, mgr_registered>>

\* A bug: the io_context is not stopped.
StopClosesStillServing ==
  /\ main = "sleeping"
  /\ main' = "joining"
  /\ keepalive' = FALSE /\ retry' = FALSE
  /\ transport' = "closed"
  /\ UNCHANGED <<starts, stopped, io, running, registered, sendVars, keepalive_due,
                 retry_due, mgr_registered>>

StopCloses ==
  /\ main = "sleeping"
  /\ main' = "joining"
  /\ keepalive' = FALSE /\ retry' = FALSE
  /\ transport' = "closed"
  /\ stopped' = TRUE
  /\ UNCHANGED <<starts, io, running, registered, sendVars, keepalive_due,
                 retry_due, mgr_registered>>

\* A bug: the io thread is left to end by itself.
StopJoinsDetached ==
  /\ main = "joining"
  /\ main' = "down"
  /\ mgr_registered' = FALSE
  /\ UNCHANGED <<starts, stopped, io, agentVars, registered, sendVars, timerVars>>

\* A bug: the manager keeps its flag.
StopJoinsKeeping ==
  /\ main = "joining" /\ io = "ended"
  /\ main' = "down"
  /\ UNCHANGED <<starts, stopped, io, agentVars, registered, sendVars, timerVars,
                 mgr_registered>>

StopJoins ==
  /\ main = "joining" /\ io = "ended"
  /\ main' = "down"
  /\ mgr_registered' = FALSE
  /\ UNCHANGED <<starts, stopped, io, agentVars, registered, sendVars, timerVars>>

-----------------------------------------------------------------------------
(* The io thread.                                                          *)

\* It takes the next handler; once the io_context is stopped it takes none.
Serves == io = "idle" /\ ~ stopped

IoEnds ==
  /\ io = "idle" /\ stopped
  /\ io' = "ended"
  /\ UNCHANGED <<mainVars, agentVars, registered, sendVars, timerVars, mgr_registered>>

\* A response has come from the platform.
Receives == Serves /\ transport = "open" /\ asked

\* Any 200, whatever request it answers.  A new keepalive timer takes the place
\* of the old one, whose wait is aborted.
RegisterOk ==
  /\ Receives
  /\ registered' = TRUE
  /\ keepalive' = FALSE
  /\ io' = "ok"
  /\ UNCHANGED <<mainVars, agentVars, sendVars, keepalive_due, retryVars,
                 mgr_registered>>

\* A bug: only a first registration arms the timer.
KeepaliveStartsOnce ==
  /\ io = "ok"
  /\ SendRegister
  /\ io' = IF running /\ ~ mgr_registered THEN "arming" ELSE "success"
  /\ UNCHANGED <<mainVars, agentVars, registered, timerVars, mgr_registered>>

\* Called for the 200, the keepalive callback looks at running_, sends a
\* REGISTER at once and goes on to arm the timer.
KeepaliveStarts ==
  /\ io = "ok"
  /\ SendRegister
  /\ io' = IF running THEN "arming" ELSE "success"
  /\ UNCHANGED <<mainVars, agentVars, registered, timerVars, mgr_registered>>

\* Called for an expired wait, it does the same.
KeepaliveFires ==
  /\ Serves /\ keepalive_due > 0
  /\ keepalive_due' = keepalive_due - 1
  /\ SendRegister
  /\ io' = IF running THEN "rearming" ELSE "idle"
  /\ UNCHANGED <<mainVars, agentVars, registered, keepalive, retryVars,
                 mgr_registered>>

\* A bug: the timer is good for one keepalive.
KeepaliveArmsOnce ==
  /\ io \in {"arming", "rearming"}
  /\ keepalive' = (io = "arming")
  /\ io' = IF io = "arming" THEN "success" ELSE "idle"
  /\ UNCHANGED <<mainVars, agentVars, registered, sendVars, keepalive_due,
                 retryVars, mgr_registered>>

\* expires_after aborts the wait that is pending, if there is one.
KeepaliveArms ==
  /\ io \in {"arming", "rearming"}
  /\ keepalive' = TRUE
  /\ io' = IF io = "arming" THEN "success" ELSE "idle"
  /\ UNCHANGED <<mainVars, agentVars, registered, sendVars, keepalive_due,
                 retryVars, mgr_registered>>

\* The callback waits for the manager's mutex.
OnRegisterSuccess ==
  /\ io = "success" /\ ~ Locked
  /\ mgr_registered' = TRUE
  /\ io' = "idle"
  /\ UNCHANGED <<mainVars, agentVars, registered, sendVars, timerVars>>

\* A 401; one without a WWW-Authenticate header is dropped.
HandleAuthentication ==
  /\ Receives
  /\ SendRegister
  /\ UNCHANGED <<mainVars, io, agentVars, registered, timerVars, mgr_registered>>

\* Any other status.
RegisterFailed ==
  /\ Receives
  /\ io' = "failed"
  /\ UNCHANGED <<mainVars, agentVars, registered, sendVars, timerVars, mgr_registered>>

\* The callback, and then a new retry timer in place of the old one.
OnRegisterFailed ==
  /\ io = "failed" /\ ~ Locked
  /\ mgr_registered' = FALSE
  /\ io' = "retrying"
  /\ UNCHANGED <<mainVars, agentVars, registered, sendVars, timerVars>>

RetryArms ==
  /\ io = "retrying"
  /\ retry' = TRUE
  /\ io' = "idle"
  /\ UNCHANGED <<mainVars, agentVars, registered, sendVars, keepalive,
                 keepalive_due, retry_due, mgr_registered>>

RegisterRetryTimerCallback ==
  /\ Serves /\ retry_due > 0
  /\ retry_due' = retry_due - 1
  /\ SendRegister
  /\ UNCHANGED <<mainVars, io, agentVars, registered, keepalive, keepalive_due,
                 retry, mgr_registered>>

\* A Catalog or DeviceInfo query; the report is a MESSAGE of its own.
OnMessage ==
  /\ Serves /\ transport = "open"
  /\ registered
  /\ SendRegister
  /\ UNCHANGED <<mainVars, io, agentVars, registered, timerVars, mgr_registered>>

-----------------------------------------------------------------------------
(* Time and the application.                                               *)

KeepaliveExpires ==
  /\ keepalive /\ keepalive_due < MaxDue
  /\ keepalive' = FALSE
  /\ keepalive_due' = keepalive_due + 1
  /\ UNCHANGED <<mainVars, io, agentVars, registered, sendVars, retryVars,
                 mgr_registered>>

RetryExpires ==
  /\ retry /\ retry_due < MaxDue
  /\ retry' = FALSE
  /\ retry_due' = retry_due + 1
  /\ UNCHANGED <<mainVars, io, agentVars, registered, sendVars, keepalive,
                 keepalive_due, mgr_registered>>

\* SendKeepalive, ReportCatalog and ReportDeviceInfo take no lock.
SendKeepalive ==
  /\ Manual /\ registered
  /\ SendRegister
  /\ UNCHANGED <<mainVars, io, agentVars, registered, timerVars, mgr_registered>>

-----------------------------------------------------------------------------
Stop == StopBegins \/ StopUnregisters \/ StopCloses \/ StopJoins

IoTakesHandler ==
  \/ RegisterOk
  \/ KeepaliveFires
  \/ HandleAuthentication
  \/ RegisterFailed
  \/ RegisterRetryTimerCallback
  \/ OnMessage

IoGoesOn ==
  \/ KeepaliveStarts
  \/ KeepaliveArms
  \/ OnRegisterSuccess
  \/ OnRegisterFailed
  \/ RetryArms
  \/ IoEnds

Next ==
  \/ StartTransport
  \/ StartRegisters
  \/ Stop
  \/ IoTakesHandler
  \/ IoGoesOn
  \/ KeepaliveExpires
  \/ RetryExpires
  \/ SendKeepalive

Spec == Init /\ [][Next]_vars

\* A call of Start or Stop goes on as far as its locks and joins let it; a
\* handler goes on as far as the mutex lets it; a wait expires, and the io thread
\* gets round to the handler of a wait.  Nothing is promised of the network, of
\* the application, or of when Stop is called.
Fairness ==
  /\ WF_vars(StartRegisters)
  /\ WF_vars(StopUnregisters \/ StopCloses \/ StopJoins)
  /\ WF_vars(IoGoesOn)
  /\ WF_vars(KeepaliveExpires)
  /\ SF_vars(KeepaliveFires)

FairSpec == Spec /\ Fairness

-----------------------------------------------------------------------------
(* Properties.                                                             *)

\* The variables have their types.
TypeOK ==
  /\ main \in {"down", "starting", "up", "stopping", "sleeping", "joining"}
  /\ starts \in 0..(Restarts + 1)
  /\ stopped \in BOOLEAN
  /\ io \in {"none", "idle", "ok", "arming", "rearming", "success", "failed",
             "retrying", "ended"}
  /\ transport \in {"none", "open", "closed"}
  /\ running \in BOOLEAN
  /\ registered \in BOOLEAN
  /\ cseq \in 0..(CSeqs - 1)
  /\ asked \in BOOLEAN
  /\ keepalive \in BOOLEAN
  /\ keepalive_due \in 0..MaxDue
  /\ retry \in BOOLEAN
  /\ retry_due \in 0..MaxDue
  /\ mgr_registered \in BOOLEAN

\* Once Stop has returned the io thread has ended, the socket is closed, and
\* neither the agent nor the manager believes it is registered - although the
\* answer to the unregistration, which sets registered_ (line 613), may arrive
\* while Stop sleeps (line 256).
StoppedIsQuiet ==
  main = "down" /\ starts > 0 =>
    io = "ended" /\ transport = "closed" /\ ~ registered /\ ~ mgr_registered

\* A registered agent that runs always has a keepalive coming: no order of
\* responses, expiries and replaced timers (lines 616-617) loses the chain of
\* waits.
KeepaliveArmed ==
  registered /\ running =>
    keepalive \/ keepalive_due > 0 \/ io \in {"ok", "arming", "rearming"}

\* Whoever can read the manager's registered_ never finds it set when the agent's
\* own flag is not, though the io thread and the caller of Stop set the two in
\* different places and only one of them is under the mutex.
ManagerNotAhead == ~ Locked /\ mgr_registered => registered

\* The phases of the caller and the io thread, and what they leave behind: the
\* agent runs exactly while the module is up; before the first start has sent
\* anything no response can come; a stopped io_context has an io thread that has
\* ended, but for a first Stop that waits for it.
Phases ==
  /\ running <=> main = "up"
  /\ main = "down" =>
       IF stopped THEN io = "ended" /\ transport = "closed" ELSE
         starts = 0 /\ io = "none" /\ ~ asked
  /\ main = "starting" => IF stopped THEN io = "ended" ELSE io = "idle" /\ ~ asked
  /\ main \in {"up", "stopping", "sleeping"} /\ stopped => io = "ended"
  /\ main = "joining" => stopped /\ transport = "closed"

\* The flag of the agent is set while a 200 is being handled, and the flag of the
\* manager follows it, until Stop resets the one before the other.  A 200 that is
\* handled after that keeps the io thread from ending.
FlagsInv ==
  /\ main \in {"down", "starting"} => ~ registered /\ ~ mgr_registered
  /\ stopped /\ io = "ended" => ~ registered
  /\ main \notin {"sleeping", "joining"} /\ io \in {"ok", "arming", "success"} =>
       registered
  /\ main \in {"sleeping", "joining"} /\ registered =>
       io \in {"ok", "arming", "success"}
  /\ main \in {"up", "stopping"} /\ mgr_registered => registered

SipInv == TypeOK /\ Phases /\ FlagsInv /\ KeepaliveArmed

\* A registered agent goes on sending REGISTERs until Stop, even if the network
\* loses every message and the application never asks for a keepalive.
KeepsRegistering ==
  \A c \in 0..(CSeqs - 1) :
    registered /\ cseq = c ~> cseq # c \/ ~ running

\* Stop returns, or it joins an io thread that waits, in a callback of the
\* manager, for the mutex that Stop holds (gb28181_manager.cpp:109, 279, 285):
\* nothing else holds it up, though gb28181_manager.h:44 speaks of no condition.
StopHeldOnlyByCallback ==
  main = "stopping" ~>
    main = "down" \/ (main = "joining" /\ io \in {"success", "failed"})
=============================================================================
