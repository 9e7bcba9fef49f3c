------------------------- MODULE WiFiPlatformProofs -------------------------
(***************************************************************************)
(* Proofs about WiFiPlatform for any set of configurations and stations,   *)
(* any clock and any delays that the assumptions allow.                    *)
(*                                                                         *)
(* That a retry is not early is a matter of the clock, which turns over:   *)
(* while a retry waits, the way from the clock to its deadline is what the *)
(* delay has left (WaitInv), at most half a turn, so that the signed       *)
(* comparison of the code is right.  It is an inductive invariant only     *)
(* together with who clears the deadline: every call that leaves a         *)
(* reconnecting client's deadline alone leaves the waiting alone as well.  *)
(***************************************************************************)
EXTENDS WiFiPlatform, TLAPS

Bases == Configurations \cup {Default}
Modes == {d.mode : d \in Configurations} \cup {"off", "accessPoint"}
Confs == {[c EXCEPT !.mode = m] : c \in Bases, m \in Modes}

ClientStates == {"initial", "disconnected", "connecting", "connected", "reconnecting", "failed"}

Clients == [state : ClientStates, attempts : 0 .. MaximumAttempts,
            next : 0 .. Wrap - 1, started : 0 .. Wrap - 1]

HeardSet == [address : BOOLEAN, stations : SUBSET Stations]

\* The type invariant: the flags apart from the rest.
Flags ==
    /\ manual \in BOOLEAN /\ profile \in BOOLEAN /\ address \in BOOLEAN
    /\ station \in BOOLEAN /\ link \in BOOLEAN /\ ap \in BOOLEAN /\ owed \in BOOLEAN

Values ==
    /\ config \in Confs /\ client \in Clients
    /\ known \subseteq Stations
    /\ clock \in 0 .. Wrap - 1 /\ idle \in 0 .. PollGap /\ waited \in 0 .. MaximumDelay
    /\ heard \in HeardSet /\ silent \in HeardSet

\* A client is waiting for its deadline.
Waiting(cl) == cl.state = "reconnecting" /\ cl.next # 0

\* Until the delay has passed, the deadline is ahead by what is left of it.
WaitInv ==
    Waiting(client) =>
        /\ owed
        /\ LET delay == Backoff(client.attempts)
           IN  waited < delay => (client.next - clock) % Wrap = delay - waited

Inv == Flags /\ Values /\ WaitInv /\ EventsAgree

-----------------------------------------------------------------------------
(* The clock *)

\* Arithmetic of times on a clock of w ticks.
LEMMA Times ==
    ASSUME NEW w \in Nat \ {0}, NEW a \in 0 .. w - 1, NEW b \in 0 .. w - 1
    PROVE  /\ (a - b) % w = IF a < b THEN a - b + w ELSE a - b
           /\ (a + b) % w = IF a + b >= w THEN a + b - w ELSE a + b
  OBVIOUS

\* Any time is on the clock.
LEMMA OnClock == \A t \in Int : t % Wrap \in 0 .. Wrap - 1
  <1>1. Wrap \in Nat \ {0}
    BY ClockAssumption
  <1>2. QED
    BY <1>1

\* No delay is longer than the maximum.
LEMMA BackoffBound ==
    ASSUME NEW n \in Int
    PROVE  Backoff(n) \in Int /\ Backoff(n) <= MaximumDelay
  <1>1. Multiplier ^ (n - 1) \in Int
    BY DelayAssumption
  <1>2. InitialDelay * Multiplier ^ (n - 1) \in Int /\ MaximumDelay \in Int
    BY <1>1, DelayAssumption
  <1>3. QED
    BY <1>2 DEF Backoff, Lesser

\* A deadline set now is ahead by its delay.
LEMMA DeadlineSet ==
    ASSUME clock \in 0 .. Wrap - 1, NEW delay \in 1 .. MaximumDelay,
           NEW deadline, deadline = (clock + delay) % Wrap
    PROVE  (deadline - clock) % Wrap = delay
  <1>1. Wrap \in Nat \ {0} /\ delay \in 0 .. Wrap - 1
    BY ClockAssumption, DelayAssumption
  <1>2. deadline = IF clock + delay >= Wrap THEN clock + delay - Wrap ELSE clock + delay
    BY <1>1, Times
  <1>3. deadline \in 0 .. Wrap - 1
    BY <1>1, <1>2
  <1>4. (deadline - clock) % Wrap = IF deadline < clock THEN deadline - clock + Wrap
                                    ELSE deadline - clock
    BY <1>1, <1>3, Times
  <1>5. QED
    BY <1>1, <1>2, <1>4

\* A tick brings a deadline one nearer.
LEMMA DeadlineNearer ==
    ASSUME clock \in 0 .. Wrap - 1, NEW deadline \in 0 .. Wrap - 1,
           NEW left \in 1 .. MaximumDelay, (deadline - clock) % Wrap = left,
           NEW later, later = (clock + 1) % Wrap
    PROVE  (deadline - later) % Wrap = left - 1
  <1>1. Wrap \in Nat \ {0} /\ 1 \in 0 .. Wrap - 1
    BY ClockAssumption, DelayAssumption
  <1>2. later = IF clock + 1 >= Wrap THEN clock + 1 - Wrap ELSE clock + 1
    BY <1>1, Times
  <1>3. later \in 0 .. Wrap - 1
    BY <1>1, <1>2
  <1>4. left = IF deadline < clock THEN deadline - clock + Wrap ELSE deadline - clock
    BY <1>1, Times
  <1>5. (deadline - later) % Wrap = IF deadline < later THEN deadline - later + Wrap
                                    ELSE deadline - later
    BY <1>1, <1>3, Times
  <1>6. QED
    BY <1>1, <1>2, <1>4, <1>5

\* A deadline that is ahead has not been reached.
LEMMA DeadlineAhead ==
    ASSUME clock \in 0 .. Wrap - 1, NEW deadline \in 0 .. Wrap - 1,
           NEW left \in 1 .. MaximumDelay, (deadline - clock) % Wrap = left
    PROVE  ~TimeReached(deadline)
  <1>1. Wrap \in Nat \ {0} /\ 2 * MaximumDelay <= Wrap /\ MaximumDelay \in Nat
    BY ClockAssumption, DelayAssumption
  <1>2. left = IF deadline < clock THEN deadline - clock + Wrap ELSE deadline - clock
    BY <1>1, Times
  <1>3. (clock - deadline) % Wrap = IF clock < deadline THEN clock - deadline + Wrap
                                    ELSE clock - deadline
    BY <1>1, Times
  <1>4. Wrap \div 2 \in Nat /\ 2 * (Wrap \div 2) <= Wrap
    BY <1>1
  <1>5. (clock - deadline) % Wrap >= Wrap \div 2
    BY <1>1, <1>2, <1>3, <1>4
  <1>6. (clock - deadline) % Wrap \in Int
    BY <1>1, <1>3
  <1>7. QED
    BY <1>4, <1>5, <1>6 DEF TimeReached

-----------------------------------------------------------------------------
(* The pieces of the state machine *)

\* Settling a client changes its times only where nothing reads them.
LEMMA SettledClient ==
    ASSUME NEW cl \in Clients
    PROVE  /\ Settled(cl) \in Clients /\ Settled(cl).state = cl.state
           /\ Settled(cl).attempts = cl.attempts
           /\ Waiting(Settled(cl)) => Settled(cl).next = cl.next /\ Waiting(cl)
  <1>1. 0 \in 0 .. Wrap - 1
    BY ClockAssumption
  <1>2. QED
    BY <1>1 DEF Settled, Clients, Waiting

\* RefreshState keeps a deadline only for a client that stays reconnecting.
LEMMA Refreshed ==
    ASSUME NEW conf, NEW man, NEW cl \in Clients, NEW sees, NEW ip \in BOOLEAN,
           RefreshState(conf, man, cl, sees, ip)
    PROVE  /\ client' \in Clients /\ address' \in BOOLEAN
           /\ Waiting(client') => /\ Waiting(cl) /\ client'.next = cl.next
                                  /\ client'.attempts = cl.attempts
  <1>1. PICK s \in {cl.state, "connected", "disconnected", "initial"} :
           client' = Settled([cl EXCEPT !.state = s])
    BY DEF RefreshState
  <1>2. /\ [cl EXCEPT !.state = s] \in Clients /\ [cl EXCEPT !.state = s].next = cl.next
        /\ [cl EXCEPT !.state = s].attempts = cl.attempts
        /\ [cl EXCEPT !.state = s].state = s
    BY DEF Clients, ClientStates
  <1>3. client' \in Clients
    BY <1>1, <1>2, SettledClient
  <1>4. address' \in BOOLEAN
    BY DEF RefreshState
  <1>5. Waiting(client') => Waiting(cl) /\ client'.next = cl.next
                                        /\ client'.attempts = cl.attempts
    <2>1. SUFFICES ASSUME Waiting(client')
                   PROVE  /\ Waiting(cl) /\ client'.next = cl.next
                          /\ client'.attempts = cl.attempts
      OBVIOUS
    <2>2. client'.next = cl.next /\ client'.attempts = cl.attempts /\ cl.next # 0
          /\ client'.state = "reconnecting"
      BY <1>1, <1>2, <2>1, SettledClient DEF Waiting
    <2>3. s = "reconnecting"
      BY <1>1, <1>2, <2>2, SettledClient
    <2>4. cl.state = s \/ s \in {"connected", "disconnected", "initial"}
      OBVIOUS
    <2>5. QED
      BY <2>2, <2>3, <2>4 DEF Waiting
  <1>6. QED
    BY <1>3, <1>4, <1>5

\* Of what Poll makes of the client, only a retry that it has just scheduled, or
\* one that it leaves alone, is waiting.
LEMMA PolledClient ==
    ASSUME client \in Clients, clock \in 0 .. Wrap - 1, NEW refused
    PROVE  /\ PollReconnect(refused) \in Clients
           /\ Waiting(PollReconnect(refused)) =>
                 \/ /\ LossDue(refused)
                    /\ PollReconnect(refused).next = (clock + Backoff(PollReconnect(refused).attempts)) % Wrap
                 \/ ~LossDue(refused) /\ ~RetryDue /\ PollReconnect(refused) = client
  <1>1. /\ client.attempts \in 0 .. MaximumAttempts /\ MaximumAttempts \in Nat
        /\ 0 \in 0 .. Wrap - 1
    BY DelayAssumption, ClockAssumption DEF Clients
  <1>2. CASE Tended /\ link
    <2>1. PollReconnect(refused) = [client EXCEPT !.attempts = 0, !.next = 0]
      BY <1>2 DEF PollReconnect, LossDue, RetryDue
    <2>2. 0 \in 0 .. MaximumAttempts
      BY <1>1
    <2>3. PollReconnect(refused) \in Clients
      BY <1>1, <2>1, <2>2 DEF Clients
    <2>4. PollReconnect(refused).next = 0
      BY <2>1 DEF Clients
    <2>5. QED
      BY <2>3, <2>4 DEF Waiting
  <1>3. CASE LossDue(refused)
    <2>1. PollReconnect(refused) = ScheduleReconnect(client)
      BY <1>3 DEF PollReconnect, LossDue, RetryDue
    <2>2. (clock + Backoff(client.attempts + 1)) % Wrap \in 0 .. Wrap - 1
      BY <1>1, BackoffBound, OnClock
    <2>3. client.attempts < MaximumAttempts => client.attempts + 1 \in 0 .. MaximumAttempts
      BY <1>1
    <2>4. CASE \E s \in {"disconnected", "failed"} : PollReconnect(refused) = [client EXCEPT !.state = s]
      BY <2>4 DEF Clients, ClientStates, Waiting
    <2>5. CASE /\ client.attempts < MaximumAttempts
               /\ PollReconnect(refused) = [client EXCEPT !.state = "reconnecting", !.attempts = @ + 1,
                                      !.next = (clock + Backoff(client.attempts + 1)) % Wrap]
      <3>1. /\ PollReconnect(refused) \in Clients /\ PollReconnect(refused).attempts = client.attempts + 1
            /\ PollReconnect(refused).next = (clock + Backoff(client.attempts + 1)) % Wrap
        BY <2>2, <2>3, <2>5 DEF Clients, ClientStates
      <3>2. QED
        BY <1>3, <3>1
    <2>6. QED
      BY <1>1, <2>1, <2>4, <2>5 DEF ScheduleReconnect
  <1>4. CASE RetryDue /\ ~LossDue(refused)
    <2>1. PollReconnect(refused) = BeginClient([client EXCEPT !.next = 0], TRUE)
      BY <1>4 DEF PollReconnect, LossDue, RetryDue
    <2>2. QED
      BY <1>1, <2>1 DEF BeginClient, Clients, ClientStates, Waiting
  <1>5. CASE ~(Tended /\ link) /\ ~LossDue(refused) /\ ~RetryDue
    <2>1. PollReconnect(refused) = client
      BY <1>5 DEF PollReconnect
    <2>2. QED
      BY <1>5, <2>1
  <1>6. QED
    BY <1>2, <1>3, <1>4, <1>5

\* The configurations that may be in force.
LEMMA ConfMembers ==
    /\ Default \in Confs /\ Configurations \subseteq Confs
    /\ \A c \in Confs : [c EXCEPT !.mode = "off"] \in Confs
  <1>1. \A c \in Bases, m \in Modes : [c EXCEPT !.mode = m] \in Confs
    BY DEF Confs
  <1>2. \A c \in Bases : c.mode \in Modes /\ [c EXCEPT !.mode = c.mode] = c
    BY ConfigurationAssumption DEF Bases, Modes, Default
  <1>3. \A c \in Bases : c \in Confs
    BY <1>1, <1>2
  <1>4. ASSUME NEW k \in Confs PROVE [k EXCEPT !.mode = "off"] \in Confs
    <2>1. PICK c \in Bases, m \in Modes : k = [c EXCEPT !.mode = m]
      BY DEF Confs
    <2>2. [k EXCEPT !.mode = "off"] = [c EXCEPT !.mode = "off"]
      BY <2>1, ConfigurationAssumption DEF Bases, Default
    <2>3. "off" \in Modes
      BY DEF Modes
    <2>4. QED
      BY <1>1, <2>2, <2>3
  <1>5. QED
    BY <1>3, <1>4 DEF Bases

\* Setting the mode leaves the radio well typed.
LEMMA ModeSet ==
    ASSUME Flags, Values, NEW mode, SetMode(mode)
    PROVE  station' \in BOOLEAN /\ link' \in BOOLEAN /\ ap' \in BOOLEAN
  <1>1. station' \in BOOLEAN
    BY DEF SetMode, UsesClient
  <1>2. link' \in BOOLEAN
    BY DEF SetMode, Flags
  <1>3. ap' \in BOOLEAN
    BY DEF SetMode, Flags
  <1>4. QED
    BY <1>1, <1>2, <1>3

\* An address that changes without an event makes what was heard of it wrong, or
\* right again.
LEMMA SilentAddress ==
    ASSUME NEW a \in BOOLEAN, NEW b \in BOOLEAN, NEW h \in BOOLEAN, NEW q \in BOOLEAN,
           h # a <=> q
    PROVE  /\ (q # (b # a)) \in BOOLEAN
           /\ h # b <=> (q # (b # a))
  <1>1. CASE b = a
    <2>1. (b # a) = FALSE
      BY <1>1
    <2>2. QED
      BY <1>1, <2>1
  <1>2. CASE b # a
    <2>1. (b # a) = TRUE /\ (h # b <=> ~(h # a))
      BY <1>2
    <2>2. QED
      BY <2>1
  <1>3. QED
    BY <1>1, <1>2

\* An event about the address makes what was heard of it right.
LEMMA ToldAddress ==
    ASSUME NEW a \in BOOLEAN, NEW b \in BOOLEAN, NEW h \in BOOLEAN, NEW q \in BOOLEAN,
           h # a <=> q, NEW latest, latest = IF b # a THEN b ELSE h
    PROVE  latest \in BOOLEAN /\ (latest # b <=> q /\ b = a)
  <1>1. CASE b = a
    BY <1>1
  <1>2. CASE b # a
    BY <1>2
  <1>3. QED
    BY <1>1, <1>2

\* A call that changes what the events tell of, and drops stations at most, says
\* that it did.
LEMMA SilentCall ==
    ASSUME Flags, Values, EventsAgree, Silently, address' \in BOOLEAN, known' \subseteq known
    PROVE  heard' \in HeardSet /\ silent' \in HeardSet /\ EventsAgree'
  <1>1. /\ address \in BOOLEAN /\ heard.address \in BOOLEAN /\ silent.address \in BOOLEAN
        /\ heard \in HeardSet /\ known \subseteq Stations
        /\ silent.stations \subseteq Stations
    BY DEF Flags, Values, HeardSet
  <1>2. /\ heard.address # address <=> silent.address
        /\ heard.stations = known \cup silent.stations
    BY DEF EventsAgree
  <1>3. PICK q : q = (silent.address # (address' # address))
    OBVIOUS
  <1>4. q \in BOOLEAN /\ (heard.address # address' <=> q)
    BY <1>1, <1>2, <1>3, SilentAddress
  <1>5. silent' = [address |-> q, stations |-> silent.stations \cup (known \ known')]
        /\ heard' = heard
    BY <1>3 DEF Silently
  <1>6. heard' \in HeardSet /\ silent' \in HeardSet
    BY <1>1, <1>4, <1>5 DEF HeardSet
  <1>7. heard'.address # address' <=> silent'.address
    BY <1>4, <1>5
  <1>8. heard'.stations = known' \cup silent'.stations
    BY <1>2, <1>5
  <1>9. QED
    BY <1>6, <1>7, <1>8 DEF EventsAgree

\* The events of a Poll make up for what they tell of, and for nothing else.
LEMMA Reported ==
    ASSUME Flags, Values, EventsAgree, Report, address' \in BOOLEAN
    PROVE  /\ heard' \in HeardSet /\ silent' \in HeardSet /\ EventsAgree'
           /\ known' \subseteq Stations
  <1>1. /\ address \in BOOLEAN /\ heard.address \in BOOLEAN /\ silent.address \in BOOLEAN
        /\ known \subseteq Stations /\ silent.stations \subseteq Stations
    BY DEF Flags, Values, HeardSet
  <1>2. /\ heard.address # address <=> silent.address
        /\ heard.stations = known \cup silent.stations
    BY DEF EventsAgree
  <1>3. PICK latest : latest = IF address' # address THEN address' ELSE heard.address
    OBVIOUS
  <1>4. PICK unsaid : unsaid = (silent.address /\ address' = address)
    OBVIOUS
  <1>5. latest \in BOOLEAN /\ unsaid \in BOOLEAN /\ (latest # address' <=> unsaid)
    BY <1>1, <1>2, <1>3, <1>4, ToldAddress
  <1>6. \E hs, ss \in SUBSET Stations :
           /\ heard' = [address |-> latest, stations |-> hs]
           /\ silent' = [address |-> unsaid, stations |-> ss]
           /\ hs = known' \cup ss /\ known' \subseteq Stations
    <2>1. CASE /\ known' \in SUBSET Stations
               /\ heard' = [address |-> latest, stations |-> StationsHeard(known, known')]
               /\ silent' = [address |-> unsaid, stations |->
                                silent.stations \ ((known' \ known) \cup (known \ known'))]
      <3> DEFINE hs == StationsHeard(known, known')
                 ss == silent.stations \ ((known' \ known) \cup (known \ known'))
      <3>1. hs = known' \cup ss /\ ss \subseteq Stations
        BY <1>1, <1>2 DEF StationsHeard
      <3> HIDE DEF hs, ss
      <3>2. hs \in SUBSET Stations /\ ss \in SUBSET Stations
        BY <2>1, <3>1
      <3>3. heard' = [address |-> latest, stations |-> hs]
            /\ silent' = [address |-> unsaid, stations |-> ss]
        BY <2>1 DEF hs, ss
      <3>4. QED
        BY <2>1, <3>1, <3>2, <3>3
    <2>2. CASE /\ known' = {}
               /\ heard' = [address |-> latest, stations |-> heard.stations]
               /\ silent' = [address |-> unsaid, stations |-> silent.stations \cup known]
      <3> DEFINE ss == silent.stations \cup known
      <3>1. heard.stations = known' \cup ss /\ ss \in SUBSET Stations
        BY <1>1, <1>2, <2>2
      <3> HIDE DEF ss
      <3>2. QED
        BY <2>2, <3>1 DEF ss
    <2>3. QED
      BY <1>3, <1>4, <2>1, <2>2 DEF Report
  <1>7. heard' \in HeardSet /\ silent' \in HeardSet
    BY <1>5, <1>6 DEF HeardSet
  <1>8. heard'.address = latest /\ silent'.address = unsaid
        /\ heard'.stations = known' \cup silent'.stations /\ known' \subseteq Stations
    BY <1>6
  <1>9. QED
    BY <1>5, <1>7, <1>8 DEF EventsAgree

-----------------------------------------------------------------------------
(* The steps *)

\* The initial state satisfies the invariant.
LEMMA InitInv == Init => Inv
  <1> SUFFICES ASSUME Init PROVE Inv
    OBVIOUS
  <1>1. client \in Clients /\ 0 \in 0 .. Wrap - 1
    BY ClockAssumption, DelayAssumption DEF Init, Clients, ClientStates
  <1>2. heard \in HeardSet /\ silent \in HeardSet
    BY DEF Init, HeardSet
  <1>3. Values
    BY <1>1, <1>2, ConfMembers, ClockAssumption, DelayAssumption DEF Init, Values
  <1>4. Flags
    BY DEF Init, Flags
  <1>5. WaitInv /\ EventsAgree
    BY DEF Init, WaitInv, Waiting, EventsAgree
  <1>6. QED
    BY <1>3, <1>4, <1>5 DEF Inv

\* A tick brings the deadline nearer and the waiting on by as much.
LEMMA TickStep ==
    ASSUME Inv, Tick
    PROVE  Inv'
  <1> USE DEF Inv
  <1>1. /\ idle < PollGap /\ clock' = (clock + 1) % Wrap /\ idle' = idle + 1
        /\ waited' = IF owed THEN Lesser(waited + 1, MaximumDelay) ELSE waited
        /\ UNCHANGED <<setup, status, radio, owed, told>>
    BY DEF Tick
  <1>2. /\ clock \in 0 .. Wrap - 1 /\ waited \in 0 .. MaximumDelay /\ MaximumDelay \in Nat
        /\ client \in Clients
    BY DelayAssumption DEF Values
  <1>3. clock' \in 0 .. Wrap - 1
    BY <1>1, <1>2, OnClock
  <1>4. waited' \in 0 .. MaximumDelay
    BY <1>1, <1>2 DEF Lesser
  <1>5. idle' \in 0 .. PollGap
    BY <1>1, ClockAssumption DEF Values
  <1>6. Flags' /\ EventsAgree'
    BY <1>1 DEF Flags, EventsAgree, setup, status, radio, told
  <1>7. Values'
    BY <1>1, <1>3, <1>4, <1>5 DEF Values, setup, status, radio, told
  <1>8. WaitInv'
    <2> DEFINE delay == Backoff(client.attempts)
    <2>1. client' = client /\ owed' = owed
      BY <1>1 DEF status
    <2>2. SUFFICES ASSUME Waiting(client), waited' < delay
                   PROVE  (client.next - clock') % Wrap = delay - waited'
      BY <2>1 DEF WaitInv, Backoff, Waiting
    <2>3. delay \in Int /\ delay <= MaximumDelay
      <3>1. client.attempts \in Int
        BY <1>2, DelayAssumption DEF Clients
      <3>2. QED
        BY <3>1, BackoffBound
    <2>4. owed /\ (waited < delay => (client.next - clock) % Wrap = delay - waited)
      BY <2>2 DEF WaitInv
    <2> HIDE DEF delay
    <2>5. waited' = waited + 1 /\ waited < delay
      BY <1>1, <1>2, <2>2, <2>3, <2>4 DEF Lesser
    <2>6. delay - waited \in 1 .. MaximumDelay
      BY <1>2, <2>3, <2>5
    <2>7. client.next \in 0 .. Wrap - 1 /\ (client.next - clock) % Wrap = delay - waited
      BY <1>2, <2>4, <2>5 DEF Clients
    <2>8. (client.next - clock') % Wrap = delay - waited - 1
      BY <1>1, <1>2, <2>6, <2>7, DeadlineNearer
    <2>9. QED
      BY <1>2, <2>3, <2>5, <2>8
  <1>9. QED
    BY <1>6, <1>7, <1>8

\* The radio does what it likes; the platform does not see it yet.
LEMMA RadioStep ==
    ASSUME Inv, LinkChanges
    PROVE  Inv'
  <1> USE DEF Inv
  <1>1. UNCHANGED <<setup, status, station, ap, time, retry, told>>
    BY DEF LinkChanges
  <1>2. link' \in BOOLEAN
    BY DEF LinkChanges
  <1>3. Flags' /\ EventsAgree'
    BY <1>1, <1>2 DEF Flags, EventsAgree, setup, status, retry, told
  <1>4. Values'
    BY <1>1 DEF Values, setup, status, time, retry, told
  <1>5. WaitInv'
    BY <1>1 DEF WaitInv, Waiting, Backoff, status, time, retry
  <1>6. QED
    BY <1>3, <1>4, <1>5

\* A call that leaves no client waiting: the rest is types and events.
LEMMA CallStep ==
    ASSUME Inv, Flags', config' \in Confs, client' \in Clients, ~Waiting(client'),
           known' \subseteq Stations, owed' = FALSE, waited' = 0,
           UNCHANGED time, heard' \in HeardSet, silent' \in HeardSet, EventsAgree'
    PROVE  Inv'
  <1>1. waited' \in 0 .. MaximumDelay
    BY DelayAssumption
  <1>2. Values'
    BY <1>1 DEF Inv, Values, time
  <1>3. QED
    BY <1>2 DEF Inv, WaitInv

\* Apply and Disable start over, without a deadline.
LEMMA ApplyStep ==
    ASSUME Inv, \/ \E c \in Configurations : ApplyOff(c) \/ Apply(c) \/ ApplyFails(c)
                \/ Disable
    PROVE  Inv'
  <1> USE DEF Inv
  <1>1. /\ client \in Clients /\ config \in Confs /\ 0 \in 0 .. MaximumAttempts
        /\ 0 \in 0 .. Wrap - 1 /\ clock \in 0 .. Wrap - 1
    BY DelayAssumption, ClockAssumption DEF Values
  <1>2. Rearmed \in Clients /\ Rearmed.next = 0 /\ Rearmed.state = client.state
    BY <1>1 DEF Rearmed, Clients
  <1>3. \A cl \in Clients : /\ [cl EXCEPT !.state = "initial"] \in Clients
                            /\ [cl EXCEPT !.state = "initial"].state = "initial"
    BY DEF Clients, ClientStates
  <1>4. ASSUME NEW c \in Configurations, ApplyOff(c) PROVE Inv'
    <2>1. client' = Settled([Rearmed EXCEPT !.state = "initial"])
      BY <1>4 DEF ApplyOff
    <2>2. client' \in Clients /\ ~Waiting(client')
      BY <1>2, <1>3, <2>1, SettledClient DEF Waiting
    <2>3. /\ config' = c /\ manual' = FALSE /\ profile' = FALSE /\ owed' = FALSE /\ waited' = 0
          /\ UNCHANGED time /\ address' = FALSE /\ known' = {} /\ Silently
          /\ SetMode("off")
      BY <1>4 DEF ApplyOff, Reset
    <2>4. station' \in BOOLEAN /\ link' \in BOOLEAN /\ ap' \in BOOLEAN
      BY <2>3, ModeSet
    <2>5. heard' \in HeardSet /\ silent' \in HeardSet /\ EventsAgree'
      BY <2>3, SilentCall
    <2>6. Flags'
      BY <2>3, <2>4 DEF Flags
    <2>7. QED
      BY <2>2, <2>3, <2>4, <2>5, <2>6, ConfMembers, CallStep
  <1>5. ASSUME NEW c \in Configurations, Apply(c) PROVE Inv'
    <2> DEFINE begun == IF UsesClient(c.mode) /\ c.client = "single"
                        THEN BeginClient(Rearmed, FALSE) ELSE Rearmed
    <2>1. /\ config' = c /\ manual' = FALSE /\ profile' = FALSE /\ owed' = FALSE /\ waited' = 0
          /\ UNCHANGED time /\ UNCHANGED known /\ Silently /\ SetMode(c.mode)
          /\ \E ip \in BOOLEAN : RefreshState(c, FALSE, begun, link', ip)
      BY <1>5 DEF Apply, Reset, LocalIP
    <2>2. begun \in Clients /\ begun.next = 0
      BY <1>1, <1>2 DEF BeginClient, Clients, ClientStates
    <2> HIDE DEF begun
    <2>3. client' \in Clients /\ address' \in BOOLEAN /\ ~Waiting(client')
      BY <2>1, <2>2, Refreshed DEF Waiting
    <2>4. station' \in BOOLEAN /\ link' \in BOOLEAN /\ ap' \in BOOLEAN
      BY <2>1, ModeSet
    <2>5. heard' \in HeardSet /\ silent' \in HeardSet /\ EventsAgree'
      BY <2>1, <2>3, SilentCall
    <2>6. Flags' /\ known' \subseteq Stations
      BY <2>1, <2>3, <2>4 DEF Flags, Values
    <2>7. QED
      BY <2>1, <2>3, <2>4, <2>5, <2>6, ConfMembers, CallStep
  <1>6. ASSUME NEW c \in Configurations, ApplyFails(c) PROVE Inv'
    <2>1. /\ config' = c /\ manual' = FALSE /\ profile' = FALSE /\ owed' = FALSE /\ waited' = 0
          /\ UNCHANGED time /\ client' = Rearmed
          /\ UNCHANGED radio \/ SetMode(c.mode)
          /\ UNCHANGED <<address, known, told>>
      BY <1>6 DEF ApplyFails, Reset
    <2>2. station' \in BOOLEAN /\ link' \in BOOLEAN /\ ap' \in BOOLEAN
      <3>1. CASE UNCHANGED radio
        BY <3>1 DEF radio, Flags
      <3>2. CASE SetMode(c.mode)
        BY <3>2, ModeSet
      <3>3. QED
        BY <2>1, <3>1, <3>2
    <2>3. Flags' /\ EventsAgree'
      BY <2>1, <2>2 DEF Flags, EventsAgree, told
    <2>4. client' \in Clients /\ ~Waiting(client')
      BY <1>2, <2>1 DEF Waiting
    <2>5. known' \subseteq Stations /\ heard' \in HeardSet /\ silent' \in HeardSet
      BY <2>1 DEF Values, told
    <2>6. QED
      BY <2>1, <2>2, <2>3, <2>4, <2>5, ConfMembers, CallStep
  <1>7. CASE Disable
    <2>1. /\ config' = [config EXCEPT !.mode = "off"] /\ manual' = TRUE /\ owed' = FALSE
          /\ waited' = 0 /\ UNCHANGED <<profile, time>>
          /\ client' = Settled([client EXCEPT !.state = "initial"])
          /\ address' = FALSE /\ known' = {} /\ Silently
          /\ SetMode("off")
      BY <1>7 DEF Disable
    <2>2. client' \in Clients /\ ~Waiting(client')
      BY <1>1, <1>3, <2>1, SettledClient DEF Waiting
    <2>3. station' \in BOOLEAN /\ link' \in BOOLEAN /\ ap' \in BOOLEAN
      BY <2>1, ModeSet
    <2>4. heard' \in HeardSet /\ silent' \in HeardSet /\ EventsAgree'
      BY <2>1, SilentCall
    <2>5. Flags'
      BY <2>1, <2>3 DEF Flags
    <2>6. QED
      BY <1>1, <2>1, <2>2, <2>3, <2>4, <2>5, ConfMembers, CallStep
  <1>8. QED
    BY <1>4, <1>5, <1>6, <1>7

\* Connecting and disconnecting by hand leave no deadline.
LEMMA ClientStep ==
    ASSUME Inv, \/ \E withProfile \in BOOLEAN : ConnectClient(withProfile)
                \/ DisconnectClient
    PROVE  Inv'
  <1> USE DEF Inv
  <1>1. PICK cl \in Clients : client' = Settled(cl) /\ cl.state # "reconnecting"
    <2>1. client \in Clients /\ 0 \in 0 .. MaximumAttempts /\ clock \in 0 .. Wrap - 1
      BY DelayAssumption DEF Values
    <2>2. CASE DisconnectClient
      <3>1. /\ [client EXCEPT !.state = "disconnected"] \in Clients
            /\ [client EXCEPT !.state = "disconnected"].state = "disconnected"
        BY <2>1 DEF Clients, ClientStates
      <3>2. QED
        BY <2>2, <3>1 DEF DisconnectClient
    <2>3. CASE \E withProfile \in BOOLEAN : ConnectClient(withProfile)
      <3> DEFINE cl == BeginClient([client EXCEPT !.attempts = 0], FALSE)
      <3>1. cl \in Clients /\ cl.state = "connecting"
        BY <2>1 DEF BeginClient, Clients, ClientStates
      <3>2. client' = Settled(cl)
        BY <2>3 DEF ConnectClient
      <3> HIDE DEF cl
      <3>3. QED
        BY <3>1, <3>2
    <2>4. QED
      BY <2>2, <2>3
  <1>2. client' \in Clients /\ ~Waiting(client')
    BY <1>1, SettledClient DEF Waiting
  <1>3. /\ UNCHANGED <<config, address, known, station, ap, time, told>>
        /\ owed' = FALSE /\ waited' = 0 /\ link' \in BOOLEAN
        /\ manual' \in BOOLEAN /\ profile' \in BOOLEAN
    BY DEF ConnectClient, DisconnectClient, Flags
  <1>4. Flags' /\ EventsAgree'
    BY <1>3 DEF Flags, EventsAgree, told
  <1>5. /\ config' \in Confs /\ known' \subseteq Stations
        /\ heard' \in HeardSet /\ silent' \in HeardSet
    BY <1>3 DEF Values, told
  <1>6. QED
    BY <1>2, <1>3, <1>4, <1>5, CallStep

\* A connection that fails and the access point's calls leave the client alone.
LEMMA OtherCallStep ==
    ASSUME Inv, \/ \E withProfile \in BOOLEAN : ConnectClientFails(withProfile)
                \/ DisableFails \/ StartAccessPoint \/ StopAccessPoint \/ StopAccessPointFails
    PROVE  Inv'
  <1> USE DEF Inv
  <1>1. UNCHANGED <<config, client, address, link, time, retry>>
    BY DEF ConnectClientFails, DisableFails, StartAccessPoint, StopAccessPoint,
           StopAccessPointFails, status, radio, setup
  <1>2. /\ manual' \in BOOLEAN /\ profile' \in BOOLEAN /\ ap' \in BOOLEAN
        /\ station' \in BOOLEAN
    BY DEF ConnectClientFails, DisableFails, StartAccessPoint, StopAccessPoint,
           StopAccessPointFails, setup, radio, ConfigureAccessPoint, ClientInterfaceOn, Flags
  <1>3. known' \subseteq known
    BY DEF ConnectClientFails, DisableFails, StartAccessPoint, StopAccessPoint,
           StopAccessPointFails, status
  <1>4. heard' \in HeardSet /\ silent' \in HeardSet /\ EventsAgree'
    <2>1. CASE StopAccessPoint
      <3>1. address' \in BOOLEAN /\ Silently
        BY <1>1, <2>1 DEF Flags, StopAccessPoint
      <3>2. QED
        BY <1>3, <3>1, SilentCall
    <2>2. CASE UNCHANGED <<address, known, told>>
      BY <2>2 DEF Values, EventsAgree, told
    <2>3. QED
      BY <2>1, <2>2 DEF ConnectClientFails, DisableFails, StartAccessPoint,
                        StopAccessPointFails, status
  <1>5. Flags'
    BY <1>1, <1>2 DEF Flags, retry
  <1>6. Values'
    BY <1>1, <1>3, <1>4 DEF Values, time, retry
  <1>7. WaitInv'
    BY <1>1 DEF WaitInv, Waiting, Backoff, time, retry
  <1>8. QED
    BY <1>4, <1>5, <1>6, <1>7

\* Poll schedules a retry from the present moment, leaves one that is not due
\* alone, and reports what has changed since the last Poll.
LEMMA PollingStep ==
    ASSUME Inv, NEW events \in BOOLEAN, NEW refused \in BOOLEAN, Poll(events, refused)
    PROVE  Inv'
  <1> USE DEF Inv
  <1>1. /\ idle' = 0
        /\ \E ip \in BOOLEAN : RefreshState(config, manual, PollReconnect(refused), link', ip)
        /\ owed' = (client'.state = "reconnecting" /\ ~RetryDue /\ (owed \/ LossDue(refused)))
        /\ waited' = IF owed' /\ ~LossDue(refused) THEN waited ELSE 0
        /\ UNCHANGED <<setup, station, ap, clock>>
    BY DEF Poll, LocalIP
  <1>2. client \in Clients /\ clock \in 0 .. Wrap - 1
    BY DEF Values
  <1>3. /\ PollReconnect(refused) \in Clients
        /\ Waiting(PollReconnect(refused)) =>
              \/ /\ LossDue(refused)
                 /\ PollReconnect(refused).next = (clock + Backoff(PollReconnect(refused).attempts)) % Wrap
              \/ ~LossDue(refused) /\ ~RetryDue /\ PollReconnect(refused) = client
    BY <1>2, PolledClient
  <1>4. /\ client' \in Clients /\ address' \in BOOLEAN
        /\ Waiting(client') => /\ Waiting(PollReconnect(refused)) /\ client'.next = PollReconnect(refused).next
                               /\ client'.attempts = PollReconnect(refused).attempts
    BY <1>1, <1>3, Refreshed
  <1>5. /\ heard' \in HeardSet /\ silent' \in HeardSet /\ EventsAgree'
        /\ known' \subseteq Stations
    <2>1. CASE Report
      BY <1>4, <2>1, Reported
    <2>2. CASE UNCHANGED known /\ Silently
      BY <1>4, <2>2, SilentCall DEF Values
    <2>3. QED
      BY <2>1, <2>2 DEF Poll
  <1>6. owed' \in BOOLEAN /\ link' \in BOOLEAN
    <2>1. link' \in BOOLEAN
      BY DEF Poll, Flags
    <2>2. QED
      BY <1>1, <2>1
  <1>7. Flags'
    BY <1>1, <1>4, <1>6 DEF Flags, setup
  <1>8. waited' \in 0 .. MaximumDelay
    BY <1>1, DelayAssumption DEF Values
  <1>9. Values'
    <2>1. idle' \in 0 .. PollGap
      BY <1>1, ClockAssumption
    <2>2. QED
      BY <1>1, <1>4, <1>5, <1>8, <2>1 DEF Values, setup
  <1>10. WaitInv'
    <2>1. SUFFICES ASSUME Waiting(client') PROVE WaitInv'
      BY DEF WaitInv
    <2>2. clock' = clock /\ client'.state = "reconnecting"
      BY <1>1, <2>1 DEF Waiting
    <2>3. CASE LossDue(refused)
      <3> DEFINE delay == Backoff(client'.attempts)
      <3>1. ~RetryDue
        BY <2>3 DEF LossDue, RetryDue
      <3>2. owed'
        BY <1>1, <2>2, <2>3, <3>1
      <3>3. client'.next = (clock + delay) % Wrap
        BY <1>3, <1>4, <2>1, <2>3
      <3>4. waited' = 0
        BY <1>1, <2>3
      <3>5. delay \in Int /\ delay <= MaximumDelay /\ MaximumDelay \in Nat
        BY <1>4, BackoffBound, DelayAssumption DEF Clients
      <3> HIDE DEF delay
      <3>6. 0 < delay => (client'.next - clock) % Wrap = delay
        BY <1>2, <3>3, <3>5, DeadlineSet
      <3>7. waited' < delay => (client'.next - clock') % Wrap = delay - waited'
        BY <2>2, <3>4, <3>5, <3>6
      <3>8. QED
        BY <3>2, <3>7 DEF WaitInv, Backoff, delay
    <2>4. CASE ~LossDue(refused)
      <3>1. ~RetryDue /\ Waiting(client) /\ client'.next = client.next
            /\ client'.attempts = client.attempts
        BY <1>3, <1>4, <2>1, <2>4
      <3>2. owed
        BY <3>1 DEF WaitInv
      <3>3. owed' /\ waited' = waited
        BY <1>1, <2>2, <2>4, <3>1, <3>2
      <3>4. QED
        BY <2>2, <3>1, <3>3 DEF WaitInv, Backoff
    <2>5. QED
      BY <2>3, <2>4
  <1>11. QED
    BY <1>5, <1>7, <1>9, <1>10

-----------------------------------------------------------------------------
(* The properties *)

\* Every reachable state satisfies the invariant.
THEOREM Invariant == Spec => []Inv
  <1>1. Inv /\ Next => Inv'
    BY TickStep, RadioStep, ApplyStep, ClientStep, OtherCallStep, PollingStep
       DEF Next, Call, PollStep
  <1>2. Inv /\ UNCHANGED vars => Inv'
    BY DEF Inv, Flags, Values, WaitInv, Waiting, Backoff, EventsAgree, vars, setup, status,
           radio, time, retry, told
  <1>3. QED
    BY InitInv, <1>1, <1>2, PTL DEF Spec

\* The state is well typed.
THEOREM TypeCorrect == Spec => []TypeOK
  <1>1. Inv => TypeOK
    BY DEF Inv, Flags, Values, Confs, Bases, Modes, Clients, ClientStates, HeardSet, TypeOK
  <1>2. QED
    BY Invariant, <1>1, PTL

\* No retry is begun before its delay has passed, on a clock that turns over.
THEOREM NoEarlyRetry == Spec => []RetryNotEarly
  <1>1. ASSUME Inv, RetryDue PROVE waited >= Backoff(client.attempts)
    <2> DEFINE delay == Backoff(client.attempts)
    <2>1. Waiting(client) /\ TimeReached(client.next)
      BY <1>1 DEF RetryDue, Waiting
    <2>2. waited < delay => (client.next - clock) % Wrap = delay - waited
      BY <1>1, <2>1 DEF Inv, WaitInv
    <2>3. /\ clock \in 0 .. Wrap - 1 /\ client.next \in 0 .. Wrap - 1
          /\ waited \in Nat /\ client.attempts \in Int
      BY <1>1, DelayAssumption DEF Inv, Values, Clients
    <2>4. delay \in Int /\ delay <= MaximumDelay /\ MaximumDelay \in Nat
      BY <2>3, BackoffBound, DelayAssumption
    <2> HIDE DEF delay
    <2>5. ASSUME waited < delay PROVE FALSE
      <3>1. delay - waited \in 1 .. MaximumDelay
        BY <2>3, <2>4, <2>5
      <3>2. QED
        BY <2>1, <2>2, <2>3, <2>5, <3>1, DeadlineAhead
    <2>6. waited >= delay
      BY <2>3, <2>4, <2>5
    <2>7. QED
      BY <2>6 DEF delay
  <1>2. Inv => RetryNotEarly
    BY <1>1 DEF RetryNotEarly
  <1>3. QED
    BY Invariant, <1>2, PTL

\* What the events of Poll add up to is wrong about an address or a station
\* exactly when the last change of it was made without an event.
THEOREM EventsAlwaysAgree == Spec => []EventsAgree
  <1>1. Inv => EventsAgree
    BY DEF Inv
  <1>2. QED
    BY Invariant, <1>1, PTL

=============================================================================
