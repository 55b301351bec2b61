---------------------------- MODULE OnvifDevice ----------------------------
(***************************************************************************)
(* The ONVIF device as a client comes to know it: the program's start and  *)
(* shutdown (main.cpp, OnvifManager), WS-Discovery, and a client that      *)
(* walks from the device's address to the stream by what the answers of    *)
(* DeviceService and MediaService tell it.  OnvifServer models how the     *)
(* requests of several clients are carried.                                *)
(*                                                                         *)
(* An answer is reduced to what it lets the client ask next: addresses,    *)
(* tokens and the clock's time zone.  Handlers run on the main thread, in  *)
(* http::Server::run, and the signal handler interrupts that thread.       *)
(*                                                                         *)
(* No name is one of OnvifServer's: Onvif_proofs has the theorems of both. *)
(***************************************************************************)
EXTENDS Integers

CONSTANTS Ports,  \* values of --onvif-http-port
          Forms,  \* the prefixes of clients' envelopes: [soap, wsa]
          Zones,  \* the system's time zones, in minutes east of UTC
          Times   \* times of day, in minutes, at which the clock is asked

ASSUME FormAssumption == \A f \in Forms : DOMAIN f = {"soap", "wsa"}
ASSUME ClockAssumption == Zones \subseteq -720 .. 840 /\ Times \subseteq 0 .. 1439

VARIABLES port,      \* config_.http_port
          zone,      \* the system's time zone
          main,      \* the main thread: "setup", "ready", "serving", "ended"
          started,   \* started_ of OnvifManager, and running_ of WSDiscovery
          services,  \* the services' pointers are set
          receiving, \* WS-Discovery has a receive outstanding
          socket,    \* what socket_raw_ refers to: "none", "live", "dead"
          form,      \* how the client writes envelopes
          client,    \* "new", "probed", "asking"
          request,   \* the request that waits for the main thread; {} or one
          answer,    \* the last answer
          learnt,    \* all that answers have named
          outcome    \* "ok" or "undefined"

deviceVars ==
    <<port, zone, main, started, services, receiving, socket, form, client, request, answer,
      learnt, outcome>>

HttpPort == 8080  \* where http::Server listens, whatever the option says

Address(service) == [kind |-> "address", name |-> service, port |-> port]
TokenOf(kind, name) == [kind |-> kind, name |-> name, port |-> 0]

NoAnswer == [op |-> "none", fault |-> FALSE, names |-> {}, zone |-> 0]

DeviceInit ==
    /\ port \in Ports /\ zone \in Zones /\ form \in Forms
    /\ main = "setup" /\ started = FALSE /\ services = FALSE
    /\ receiving = FALSE /\ socket = "none"
    /\ client = "new" /\ request = {} /\ answer = NoAnswer /\ learnt = {}
    /\ outcome = "ok"

-----------------------------------------------------------------------------
(* SoapHelper                                                              *)

\* Two spellings of each element are looked for.
Found(f) == f.soap \in {"", "SOAP-ENV"} /\ f.wsa \in {"", "wsa"}

\* The operation is the last part of wsa:Action; the Body is not looked at.
Operation(r) == IF Found(r.form) THEN r.op ELSE ""

-----------------------------------------------------------------------------
(* What the services answer                                                *)

\* Mutant of Capabilities: the media service is left out.
CapabilitiesSilent == {Address("device"), Address("events")}

\* The three service addresses, in the answers of two operations.
Capabilities == {Address("device"), Address("media"), Address("events")}

Services == {Address("device"), Address("media"), Address("events")}

\* Mutant of TimeZone: a zone to the east is not carried over midnight.
TimeZoneWest(utc) ==
    LET diff == ((utc + zone) % 1440) - utc
    IN IF diff > 720 THEN diff - 1440 ELSE diff

\* The difference of two times of day, brought back into half a day.
TimeZone(utc) ==
    LET diff == ((utc + zone) % 1440) - utc
    IN IF diff > 720 THEN diff - 1440 ELSE IF diff < -720 THEN diff + 1440 ELSE diff

BuildProfileToken ==
    {TokenOf("profile", "Profile_1"), TokenOf("source_configuration", "VideoSourceToken_1"),
     TokenOf("source", "VideoSource_1"), TokenOf("encoder", "VideoEncoderToken_1")}

BuildVideoSourceConfiguration ==
    {TokenOf("source_configuration", "VideoSourceToken_1"), TokenOf("source", "VideoSource_1")}

\* Mutant of BuildVideoEncoderConfiguration: its token is not the profile's.
BuildVideoEncoderConfigurationOther == {TokenOf("encoder", "VideoEncoder_1")}

BuildVideoEncoderConfiguration == {TokenOf("encoder", "VideoEncoderToken_1")}

VideoSources == {TokenOf("source", "VideoSource_1")}

StreamUri == {[kind |-> "stream", name |-> "live", port |-> 0]}

\* These describe the device, and name nothing to ask for.
HandleGetDeviceInformation == {}

HandleGetScopes == {}

HandleGetHostname == {}

\* An operation that is not one of these is answered with a fault.
DeviceAnswers ==
    [GetCapabilities |-> Capabilities, GetServices |-> Services,
     GetDeviceInformation |-> HandleGetDeviceInformation, GetSystemDateAndTime |-> {},
     GetScopes |-> HandleGetScopes, GetHostname |-> HandleGetHostname]

\* The one profile, whatever token GetProfile is asked for.
HandleGetProfiles == BuildProfileToken

HandleGetProfile == BuildProfileToken

HandleGetVideoSourceConfigurations == BuildVideoSourceConfiguration

HandleGetVideoEncoderConfigurations == BuildVideoEncoderConfiguration

\* There are no audio sources, and no configurations of them.
NoAudio == {}

MediaAnswers ==
    [GetProfiles |-> HandleGetProfiles, GetProfile |-> HandleGetProfile,
     GetStreamUri |-> StreamUri, GetVideoSources |-> VideoSources,
     GetVideoSourceConfigurations |-> HandleGetVideoSourceConfigurations,
     GetVideoEncoderConfigurations |-> HandleGetVideoEncoderConfigurations,
     GetAudioSources |-> NoAudio, GetAudioSourceConfigurations |-> NoAudio,
     GetAudioEncoderConfigurations |-> NoAudio]

\* Of the events service, only what its answer leads to; see OnvifServer.
EventsAnswers == [CreatePullPointSubscription |-> {Address("subscription")}]

ServiceAnswers == [device |-> DeviceAnswers, media |-> MediaAnswers, events |-> EventsAnswers]

\* HandleRequest of the service, at time of day utc.
HandleRequest(r, utc) ==
    LET op == Operation(r)
        known == op \in DOMAIN ServiceAnswers[r.service]
    IN [op |-> r.op, fault |-> ~(services /\ known),
        names |-> IF services /\ known THEN ServiceAnswers[r.service][op] ELSE {},
        zone |-> IF op = "GetSystemDateAndTime" THEN TimeZone(utc) ELSE 0]

-----------------------------------------------------------------------------
(* The program                                                             *)

\* DoReceive, which gives up when running_ is not set.
DoReceive == receiving' = started

\* OnvifManager::Start and WSDiscovery::Start: DoReceive comes before running_
\* is set, and the socket, a local of the function, is closed when it ends.
StartDiscovery ==
    /\ main = "setup" /\ main' = "ready"
    /\ started' = TRUE /\ services' = TRUE
    /\ DoReceive /\ socket' = "dead"
    /\ UNCHANGED <<port, zone, form, client, request, answer, learnt, outcome>>

\* The port is taken, say: the services are there, but not "started".
DiscoveryFails ==
    /\ main = "setup" /\ main' = "ready" /\ services' = TRUE
    /\ UNCHANGED <<port, zone, started, receiving, socket, form, client, request, answer,
                   learnt, outcome>>

Serve ==
    /\ main = "ready" /\ main' = "serving"
    /\ UNCHANGED <<port, zone, started, services, receiving, socket, form, client, request,
                   answer, learnt, outcome>>

Handle(utc) ==
    /\ main = "serving"
    /\ \E r \in request : answer' = HandleRequest(r, utc)
    /\ request' = {}
    /\ learnt' = learnt \cup answer'.names
    /\ UNCHANGED <<port, zone, main, started, services, receiving, socket, form, client, outcome>>

\* The signal handler, between two handlers or during one: the server is told
\* to stop, and OnvifManager::Stop closes the socket that is no more.
Signal ==
    /\ main \in {"ready", "serving"}
    /\ main' = "ended"
    /\ outcome' = IF started /\ socket = "dead" THEN "undefined" ELSE "ok"
    /\ UNCHANGED <<port, zone, started, services, receiving, socket, form, client, request,
                   answer, learnt>>

-----------------------------------------------------------------------------
(* The client                                                              *)

\* It sends a Probe: only a device with a receive outstanding answers.
Probe ==
    /\ client = "new" /\ client' = "probed"
    /\ learnt' = IF receiving THEN {Address("device")} ELSE {}
    /\ UNCHANGED <<port, zone, main, started, services, receiving, socket, form, request,
                   answer, outcome>>

\* It is given the device's address.
Configured ==
    /\ client \in {"new", "probed"} /\ client' = "asking"
    /\ learnt' = learnt \cup {[Address("device") EXCEPT !.port = HttpPort]}
    /\ UNCHANGED <<port, zone, main, started, services, receiving, socket, form, request,
                   answer, outcome>>

\* A request to a service whose address it has, and can connect to.
Ask(service, op) ==
    /\ client = "asking" /\ request = {}
    /\ \E x \in learnt : x.kind = "address" /\ x.name = service /\ x.port = HttpPort
    /\ request' = {[service |-> service, op |-> op, form |-> form]}
    /\ UNCHANGED <<port, zone, main, started, services, receiving, socket, form, client,
                   answer, learnt, outcome>>

-----------------------------------------------------------------------------

DeviceStep ==
    \/ StartDiscovery \/ DiscoveryFails \/ Serve \/ Signal
    \/ \E utc \in Times : Handle(utc)
    \/ Probe \/ Configured
    \/ \E service \in DOMAIN ServiceAnswers :
          Ask(service, "Other") \/ \E op \in DOMAIN ServiceAnswers[service] : Ask(service, op)

DeviceNext == outcome = "ok" /\ DeviceStep

DeviceSpec == DeviceInit /\ [][DeviceNext]_deviceVars

\* The program starts and handles what it is sent, and the client is resolved
\* to ask for the services and for the stream.
DeviceFairness ==
    /\ WF_deviceVars(StartDiscovery \/ DiscoveryFails) /\ WF_deviceVars(Serve)
    /\ WF_deviceVars(\E utc \in Times : Handle(utc))
    /\ WF_deviceVars(Configured)
    /\ SF_deviceVars(Ask("device", "GetCapabilities"))
    /\ SF_deviceVars(Ask("media", "GetStreamUri"))

DeviceFairSpec == DeviceSpec /\ DeviceFairness

-----------------------------------------------------------------------------
(* Properties                                                              *)

\* The operation that lists what a token names.
ListedBy ==
    [profile |-> "GetProfiles", source |-> "GetVideoSources",
     encoder |-> "GetVideoEncoderConfigurations",
     source_configuration |-> "GetVideoSourceConfigurations"]

\* What a client has learnt can be used: an address is one of a service that
\* the server routes, if the server is where the option says, and a token is
\* listed by the operation for its kind.  A subscription's address is not
\* routed at all, see the README.
LearntHolds ==
    \A x \in learnt :
        /\ x.kind = "address" /\ x.name # "subscription"
              => x.name \in DOMAIN ServiceAnswers /\ (port = HttpPort => x.port = HttpPort)
        /\ x.kind \in DOMAIN ListedBy => x \in MediaAnswers[ListedBy[x.kind]]

\* The time zone an answer gives is the system's, at any time of day, if it is
\* less than half a day from UTC.
TimeZoneTold ==
    answer.op = "GetSystemDateAndTime" /\ ~answer.fault /\ zone \in -719 .. 719
        => answer.zone = zone

\* A client that spells its envelope in a way the device looks for is led to
\* the stream by the answers, unless the device ends before.
StreamFound ==
    Found(form) /\ port = HttpPort ~> main = "ended" \/ StreamUri \subseteq learnt
=============================================================================
