---------------------------- MODULE WiFiPlatform ----------------------------
(***************************************************************************)
(* WiFiPlatform (ESPressio_WiFiPlatform.hpp): a state machine that has no  *)
(* task and no callback of its own.  It learns what the radio does only    *)
(* when it is polled, and measures its delays with a 32-bit millisecond    *)
(* clock that wraps.  Between two looks the radio may connect, lose its    *)
(* link, or fail, and Poll itself looks twice (lines 504 and 535).         *)
(*                                                                         *)
(* Configurations differ in the mode, in how the client finds its network  *)
(* ("off": disabled; "single": an SSID; "automatic": profiles chosen by    *)
(* the caller) and in whether lost connections are retried.  Scans, host   *)
(* names, radio settings, an unlimited number of retries, the revision     *)
(* counter and what is reported of the access point's own state, which the *)
(* platform never reads back, are left out.  The two times are kept as     *)
(* long as the code may read them, and are 0 afterwards.  Stations come    *)
(* and go as they like, so that any list may be found.                     *)
(***************************************************************************)
EXTENDS Integers

CONSTANTS
    Configurations,  \* what Apply may be called with
    Stations,        \* clients of the access point
    Wrap,            \* the clock counts 0 .. Wrap - 1 (2^32 in the code)
    InitialDelay, MaximumDelay, Multiplier, MaximumAttempts,   \* Reconnect
    ConnectionTimeout,
    PollGap          \* bound: ticks between two calls of Poll

\* Validate (329-331): the delays are ordered, the factor is at least 1.  Delays
\* are at most half a turn of the clock, and polls come more often than that.
ASSUME DelayAssumption ==
    /\ InitialDelay \in Nat /\ MaximumDelay \in Nat /\ InitialDelay <= MaximumDelay
    /\ Multiplier \in Nat \ {0} /\ MaximumAttempts \in Nat \ {0} /\ ConnectionTimeout \in Nat
ASSUME ClockAssumption ==
    /\ Wrap \in Nat /\ PollGap \in Nat \ {0}
    /\ 2 * MaximumDelay <= Wrap /\ 2 * PollGap < Wrap /\ ConnectionTimeout + PollGap < Wrap
ASSUME ConfigurationAssumption ==
    Configurations \subseteq
        [mode : {"off", "client", "accessPoint", "accessPointClient", "apUntilClient"},
         client : {"off", "single", "automatic"}, reconnect : BOOLEAN]

VARIABLES
    config,       \* _configuration
    manual,       \* _manualDisconnect
    profile,      \* _hasActiveProfile
    client,       \* _state.Client.State, _reconnectAttempts, the two times
    address,      \* _state.Client.Network.Address is not 0.0.0.0
    known,        \* _knownStations
    station,      \* radio: the station interface is on
    link,         \* radio: WiFi.status() is WL_CONNECTED
    ap,           \* radio: softAPIP is not 0.0.0.0
    clock,        \* NowMilliseconds
    idle,         \* ticks since the last Poll
    owed,         \* history: a retry is scheduled and not begun
    waited,       \* history: ticks since it was scheduled, up to MaximumDelay
    heard,        \* history: what the events of Poll add up to
    silent        \* history: the address has changed, and stations were dropped, with
                  \*   no event, and no event has told of them since

radio   == <<station, link, ap>>
time    == <<clock, idle>>
setup   == <<config, manual, profile>>
status  == <<client, address, known>>
retry   == <<owed, waited>>
told    == <<heard, silent>>
vars    == <<setup, status, radio, time, retry, told>>

\* _configuration before the first Apply; its policy is never read, because its
\* client is disabled.
Default == [mode |-> "accessPoint", client |-> "off", reconnect |-> FALSE]

PersistentAP(mode) == mode \in {"accessPoint", "accessPointClient"}
CanHostAP(mode)    == PersistentAP(mode) \/ mode = "apUntilClient"
UsesClient(mode)   == mode \in {"client", "accessPointClient", "apUntilClient"}

\* ActiveSSID is not empty.
HasSSID == profile \/ config.client = "single"

\* The conditions under which Poll looks after the connection.
Tended == UsesClient(config.mode) /\ config.client # "off" /\ ~manual /\ HasSSID

\* A time that nothing will read any more counts as 0.
Settled(cl) ==
    [cl EXCEPT !.started = IF cl.state = "connecting" THEN @ ELSE 0,
               !.next = IF cl.state = "reconnecting" THEN @ ELSE 0]

Lesser(a, b) == IF a < b THEN a ELSE b

\* The delay before a retry, growing from attempt to attempt up to a limit.
Backoff(attempt) ==
    Lesser(InitialDelay * Multiplier ^ (attempt - 1), MaximumDelay)

-----------------------------------------------------------------------------
(* Mutations: plausible mistakes in the code.  No specification uses them.    *)

\* Deadlines are compared as plain unsigned numbers.
TimeReachedUnsigned(target) == clock >= target

\* A connection that was established once is taken to last.
LossDueConnecting(refused) ==
    /\ Tended /\ ~link
    /\ client.state = "connecting"
    /\ \/ refused
       \/ (clock - client.started) % Wrap >= ConnectionTimeout

\* A station that has left is reported only while another one is there.
StationsHeardWithOthers(before, now) ==
    IF now = {} THEN heard.stations ELSE (heard.stations \cup (now \ before)) \ (before \ now)

-----------------------------------------------------------------------------
(* Pieces of the state machine; each gives the client's new state *)

\* Signed comparison of 32-bit times: right while they are half a turn apart.
TimeReached(target) == (clock - target) % Wrap < Wrap \div 2

BeginClient(cl, again) ==
    [cl EXCEPT !.state = IF again THEN "reconnecting" ELSE "connecting", !.started = clock]

ScheduleReconnect(cl) ==
    IF ~config.reconnect THEN [cl EXCEPT !.state = "disconnected"]
    ELSE IF cl.attempts >= MaximumAttempts THEN [cl EXCEPT !.state = "failed"]
    ELSE [cl EXCEPT !.state = "reconnecting", !.attempts = @ + 1,
                    !.next = (clock + Backoff(cl.attempts + 1)) % Wrap]

\* The attempt was refused (WL_CONNECT_FAILED, WL_NO_SSID_AVAIL) or takes too long.
AttemptFailed(cl, refused) ==
    \/ refused
    \/ (clock - cl.started) % Wrap >= ConnectionTimeout

RetryDue ==
    /\ Tended /\ ~link
    /\ client.state = "reconnecting" /\ client.next # 0 /\ TimeReached(client.next)

LossDue(refused) ==
    /\ Tended /\ ~link
    /\ \/ client.state = "connected"
       \/ client.state = "connecting" /\ AttemptFailed(client, refused)

PollReconnect(refused) ==
    CASE Tended /\ link -> [client EXCEPT !.attempts = 0, !.next = 0]
      [] LossDue(refused) -> ScheduleReconnect(client)
      [] RetryDue -> BeginClient([client EXCEPT !.next = 0], TRUE)
      [] OTHER    -> client

\* What WiFi.localIP() may say, whatever the status: an address may come after
\* the link and outlive it, or be a fixed one.
LocalIP(interface) == IF interface THEN BOOLEAN ELSE {FALSE}

\* RefreshState, with what the radio says when it runs; inputs are the values
\* that the calls before it have left.
RefreshState(conf, man, cl, sees, ip) ==
    IF UsesClient(conf.mode)
    THEN /\ client' = Settled([cl EXCEPT !.state = IF sees THEN "connected"
                                                   ELSE IF man THEN "disconnected" ELSE @])
         /\ address' = ip
    ELSE client' = Settled([cl EXCEPT !.state = "initial"]) /\ address' = FALSE

\* What the station events of a Poll leave its caller believing.
StationsHeard(before, now) == (heard.stations \cup (now \ before)) \ (before \ now)

-----------------------------------------------------------------------------
Init ==
    /\ config = Default /\ manual = FALSE /\ profile = FALSE
    /\ client = [state |-> "initial", attempts |-> 0, next |-> 0, started |-> 0]
    /\ address = FALSE /\ known = {}
    /\ station = FALSE /\ link = FALSE /\ ap = FALSE
    /\ clock = 0 /\ idle = 0
    /\ owed = FALSE /\ waited = 0
    /\ heard = [address |-> FALSE, stations |-> {}] /\ silent = heard

-----------------------------------------------------------------------------
(* The radio and the clock *)

Tick ==
    /\ idle < PollGap
    /\ clock' = (clock + 1) % Wrap /\ idle' = idle + 1
    /\ waited' = IF owed THEN Lesser(waited + 1, MaximumDelay) ELSE waited
    /\ UNCHANGED <<setup, status, radio, owed, told>>

LinkChanges ==
    /\ station
    /\ link' = ~link
    /\ UNCHANGED <<setup, status, station, ap, time, retry, told>>

\* WiFi.mode: an interface that is turned off loses its connections.
SetMode(mode) ==
    /\ station' = UsesClient(mode)
    /\ link' \in IF UsesClient(mode) THEN {link, FALSE} ELSE {FALSE}
    /\ ap' \in IF PersistentAP(mode) THEN {ap, TRUE} ELSE {FALSE}

-----------------------------------------------------------------------------
(* The operations *)

\* The fields that Apply resets before it touches the radio.
Reset(c) ==
    /\ config' = c /\ manual' = FALSE /\ profile' = FALSE
    /\ owed' = FALSE /\ waited' = 0
    /\ UNCHANGED time

\* A call may change what the events tell of, and reports nothing; an address
\* that changes back is again what the last event said.
Silently ==
    /\ silent' = [address |-> silent.address # (address' # address),
                  stations |-> silent.stations \cup (known \ known')]
    /\ UNCHANGED heard

Rearmed == [client EXCEPT !.attempts = 0, !.next = 0]

ApplyOff(c) ==
    /\ c.mode = "off"
    /\ Reset(c) /\ SetMode("off")
    /\ client' = Settled([Rearmed EXCEPT !.state = "initial"])
    /\ address' = FALSE /\ known' = {} /\ Silently

\* With one SSID the connection is begun at once; with profiles the caller
\* chooses one.
Apply(c) ==
    /\ c.mode # "off"
    /\ Reset(c) /\ SetMode(c.mode)
    /\ PersistentAP(c.mode) => ap'
    /\ LET begun == IF UsesClient(c.mode) /\ c.client = "single"
                    THEN BeginClient(Rearmed, FALSE) ELSE Rearmed
       IN  \E ip \in LocalIP(station') : RefreshState(c, FALSE, begun, link', ip)
    /\ UNCHANGED known /\ Silently

\* WiFi.mode, the addresses or the access point are refused: the new settings
\* are in force and the state is not refreshed.
ApplyFails(c) ==
    /\ Reset(c)
    /\ client' = Rearmed
    /\ UNCHANGED radio \/ (c.mode # "off" /\ SetMode(c.mode))
    /\ UNCHANGED <<address, known, told>>

Disable ==
    /\ config' = [config EXCEPT !.mode = "off"] /\ manual' = TRUE
    /\ SetMode("off")
    /\ client' = Settled([client EXCEPT !.state = "initial"])
    /\ address' = FALSE /\ known' = {} /\ Silently
    /\ owed' = FALSE /\ waited' = 0
    /\ UNCHANGED <<profile, time>>

DisableFails ==
    /\ manual' = TRUE
    /\ UNCHANGED <<config, profile, status, radio, time, retry, told>>

\* ConnectClient, with the configured SSID or with a profile; WiFi.begin drops
\* the connection that there was unless it is the same network's.
ConnectClient(withProfile) ==
    /\ UsesClient(config.mode) /\ config.client # "off"
    /\ withProfile \/ config.client = "single"
    /\ profile' = withProfile /\ manual' = FALSE
    /\ client' = Settled(BeginClient([client EXCEPT !.attempts = 0], FALSE))
    /\ link' \in {link, FALSE}
    /\ owed' = FALSE /\ waited' = 0
    /\ UNCHANGED <<config, address, known, station, ap, time, told>>

\* The address is refused after the profile has been taken.
ConnectClientFails(withProfile) ==
    /\ UsesClient(config.mode) /\ config.client # "off"
    /\ withProfile \/ config.client = "single"
    /\ profile' = withProfile
    /\ UNCHANGED <<config, manual, status, radio, time, retry, told>>

DisconnectClient ==
    /\ UsesClient(config.mode)
    /\ manual' = TRUE
    /\ client' = Settled([client EXCEPT !.state = "disconnected"])
    /\ link' \in {link, FALSE}
    /\ owed' = FALSE /\ waited' = 0
    /\ UNCHANGED <<config, profile, address, known, station, ap, time, told>>

\* ConfigureAccessPoint sets the address, starts the access point and then its
\* DHCP server; it may fail before or after the access point is up.
ConfigureAccessPoint == ap' \in {ap, TRUE}

\* WiFi.mode(WIFI_MODE_APSTA) and (WIFI_MODE_STA), for an access point that gives
\* way to the client.
ClientInterfaceOn == station' = (station \/ config.mode = "apUntilClient")

StartAccessPoint ==
    /\ CanHostAP(config.mode)
    /\ ClientInterfaceOn
    /\ ConfigureAccessPoint
    /\ UNCHANGED <<setup, client, address, known, link, time, retry, told>>

StopAccessPoint ==
    /\ CanHostAP(config.mode)
    /\ ClientInterfaceOn
    /\ ap' = FALSE /\ known' = {}
    /\ UNCHANGED <<setup, client, address, link, time, retry>>
    /\ Silently

\* The mode is refused when the access point is already down: its stations stay
\* known.
StopAccessPointFails ==
    /\ config.mode = "apUntilClient"
    /\ ap' = FALSE
    /\ UNCHANGED <<setup, status, station, link, time, retry, told>>

\* BuildNetworkEvents: an event when the address has come or gone.
\* BuildStationEvents: an event for every station that has come or gone (none has
\* when there is no list to be had); without an access point they are forgotten.
Report ==
    LET listed == CanHostAP(config.mode) /\ ap
        unsaid == silent.address /\ address' = address
        latest == IF address' # address THEN address' ELSE heard.address
    IN  \/ /\ listed /\ known' \in SUBSET Stations
           /\ heard' = [address |-> latest, stations |-> StationsHeard(known, known')]
           /\ silent' = [address |-> unsaid,
                         stations |-> silent.stations \ ((known' \ known) \cup (known \ known'))]
        \/ /\ ~listed /\ known' = {}
           /\ heard' = [address |-> latest, stations |-> heard.stations]
           /\ silent' = [address |-> unsaid, stations |-> silent.stations \cup known]

\* Poll: the link may change between its two looks at it, and a first attempt may
\* be refused; without a vector for the events there are none, and the stations
\* are not looked at.
Poll(events, refused) ==
    /\ refused => ~link /\ client.state = "connecting"
    /\ idle' = 0
    /\ UNCHANGED <<setup, station, ap, clock>>
    /\ link' \in IF station THEN BOOLEAN ELSE {link}
    /\ \E ip \in LocalIP(station) :
          RefreshState(config, manual, PollReconnect(refused), link', ip)
    /\ owed' = (/\ client'.state = "reconnecting"
                /\ ~RetryDue
                /\ owed \/ LossDue(refused))
    /\ waited' = IF owed' /\ ~LossDue(refused) THEN waited ELSE 0
    /\ IF events THEN Report ELSE UNCHANGED known /\ Silently

-----------------------------------------------------------------------------
Call ==
    \/ \E c \in Configurations : ApplyOff(c) \/ Apply(c) \/ ApplyFails(c)
    \/ Disable \/ DisableFails
    \/ \E withProfile \in BOOLEAN :
          ConnectClient(withProfile) \/ ConnectClientFails(withProfile)
    \/ DisconnectClient
    \/ StartAccessPoint \/ StopAccessPoint \/ StopAccessPointFails

PollStep == \E events, refused \in BOOLEAN : Poll(events, refused)

Next == Tick \/ LinkChanges \/ Call \/ PollStep

Spec == Init /\ [][Next]_vars

\* Time goes on and the owner of the platform keeps polling it.
FairSpec == Spec /\ WF_vars(Tick) /\ WF_vars(PollStep)

-----------------------------------------------------------------------------
(* Properties *)

\* Type invariant.
TypeOK ==
    /\ config \in {[c EXCEPT !.mode = m] : c \in Configurations \cup {Default},
                       m \in {d.mode : d \in Configurations} \cup {"off", "accessPoint"}}
    /\ manual \in BOOLEAN /\ profile \in BOOLEAN
    /\ client \in [state : {"initial", "disconnected", "connecting", "connected",
                             "reconnecting", "failed"},
                    attempts : 0 .. MaximumAttempts,
                    next : 0 .. Wrap - 1, started : 0 .. Wrap - 1]
    /\ address \in BOOLEAN
    /\ known \subseteq Stations
    /\ station \in BOOLEAN /\ link \in BOOLEAN /\ ap \in BOOLEAN
    /\ clock \in 0 .. Wrap - 1 /\ idle \in 0 .. PollGap
    /\ owed \in BOOLEAN /\ waited \in 0 .. MaximumDelay
    /\ {heard, silent} \subseteq [address : BOOLEAN, stations : SUBSET Stations]

\* A retry is never begun before its delay has passed, also when the clock turns
\* over in between (lines 346-348, 488-492, 523-527).
RetryNotEarly == RetryDue => waited >= Backoff(client.attempts)

\* A lost connection is noticed, and the first retry that is then scheduled is
\* begun, unless the owner connects, disconnects or reconfigures meanwhile, the
\* link comes back by itself - or the deadline is 0, which the code takes for
\* "none": because it falls there, or because the look at line 504 found the link
\* for a moment and that at line 535 did not (lines 502-527).
LostClientRetries ==
    LET pending == \/ Tended /\ client.state = "connected" /\ ~link
                   \/ owed /\ client.next # 0
    IN  pending ~> ~pending

\* Whoever adds up the events of Poll is wrong about the address exactly when it
\* has changed outside a reporting Poll, and not back, since the last event; and
\* takes for connected exactly the known stations and those dropped without an
\* event, each until the next event about it.  A call, an access point that goes
\* down and a Poll without a vector upset nothing else (lines 198-203, 614-663).
EventsAgree ==
    /\ heard.address # address <=> silent.address
    /\ heard.stations = known \cup silent.stations
=============================================================================
