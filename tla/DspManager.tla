------------------------------ MODULE DspManager ------------------------------
(***************************************************************************)
(* The DSP manager: NuclustDspManagerCore, a process that lists the DSP    *)
(* servers of the network and tells plug-in instances, which ask over a    *)
(* local socket, where to run (src/nuclust/NuclustDspManager.cpp).         *)
(*                                                                         *)
(* Two threads use it: the window's, with every operation, and the IPC     *)
(* server's, which registers and unregisters plug-ins and may rescan.  One *)
(* mutex makes each operation atomic, except a telemetry refresh: it reads *)
(* the list, asks one server after the other without the mutex, and takes  *)
(* the mutex again to write down each answer.                              *)
(*                                                                         *)
(* A server is asked for its status ("info"), then for an echo ("probe");  *)
(* "none" is no answer to either.  A status tells how many channels the    *)
(* server has, which may be others than the last time.  A machine may have *)
(* several addresses, its name and its numbers, and reports one host name  *)
(* at all of them.  Of a jitter only matters whether it is above           *)
(* jitterLatchThresholdMs.  A server's "connected" flag is shown to        *)
(* the user and decides nothing, so it is left out, and of a refusal only  *)
(* that it is one: the reasons make different messages.                    *)
(***************************************************************************)
EXTENDS Naturals, Sequences, SequencesExt, FiniteSetsExt

CONSTANTS
    Addresses,      \* the addresses servers can have, sorted
    Numeric,        \* those that are numbers: a broadcast is answered from such
    Host,           \* the host name the machine at an address reports
    OwnModule,      \* the module it reports
    DefaultModule,  \* defaultModulesForManualServer()
    DefaultNode,    \* addresses of defaultRemoteDspServerNodes()
    Typed,          \* addresses the user adds
    Instance,       \* plug-in instances
    ChannelCount,   \* channels an instance can ask for
    DefaultChannels, \* maxChannels of a server that has not told
    StatusChannels, \* what a status may say of them; 0 is like saying nothing
    Wrap,           \* 2^32: channels are added up as uint32_t
    None            \* no server or module asked for, no plug-in

Address == Range(Addresses)
Module == Range(OwnModule) \cup {DefaultModule}
Silence == <<"none", 0>>
Info == {"info"} \X StatusChannels
Answer == Info \cup {<<"probe", 0>>, Silence}
Ids(a) == {<<"manual", a>>, Host[a], <<"found", Host[a], a>>}
ServerId == UNION {Ids(a) : a \in Address}

ASSUME NetworkAssumption ==
    /\ Addresses \in Seq(Address) /\ IsInjective(Addresses)
    /\ DOMAIN Host = Address /\ DOMAIN OwnModule = Address
    /\ DefaultNode \subseteq Address /\ Numeric \subseteq Address /\ Typed \subseteq Address
\* A name leads to the machine of that name, and the ids that are made of an address
\* are no other server's name or address.
ASSUME NameAssumption ==
    \A a, b \in Address :
        /\ Host[a] = b => Host[b] = b
        /\ <<"manual", a>> \notin Address \cup Range(Host)
        /\ <<"found", Host[a], a>> \notin Address \cup Range(Host)
ASSUME ChannelAssumption ==
    /\ Wrap \in Nat \ {0} /\ ChannelCount \subseteq 0 .. Wrap - 1
    /\ DefaultChannels \in Nat /\ StatusChannels \subseteq Nat

VARIABLES
    servers,           \* servers_
    plugins,           \* plugins_, by instance: the assignment and its channels
    dspEngineRunning,
    manual,            \* settings_.manualServerAddresses
    window,            \* what the window's thread is in the middle of
    targets            \* the servers a refresh still has to ask

vars == <<servers, plugins, dspEngineRunning, manual, window, targets>>

\* makeServerStatusFromAddress(), of a server that told its status or did not.
Live(answer) == answer[1] = "info"
NewServer(a, answer) ==
    [id |-> IF Live(answer) THEN Host[a] ELSE <<"manual", a>>,
     address |-> a,
     modules |-> {DefaultModule} \cup (IF Live(answer) THEN {OwnModule[a]} ELSE {}),
     high |-> FALSE, peakHigh |-> FALSE, latched |-> FALSE,
     usedChannels |-> 0,
     maxChannels |-> IF Live(answer) /\ answer[2] > 0 THEN answer[2] ELSE DefaultChannels]

OnServers(registered) ==
    {i \in Instance : registered[i] # None /\ registered[i].mode = "ExternalDsp"}

Channels(registered, instances) ==
    MapThenSumSet(LAMBDA i : registered[i].channels, instances)

\* updateSyntheticTelemetryLocked(): all external channels count on every server.
Updated(list, registered) ==
    LET used == Channels(registered, OnServers(registered)) % Wrap
    IN  [k \in DOMAIN list |->
            [list[k] EXCEPT !.usedChannels = used, !.latched = @ \/ list[k].peakHigh]]

\* findServerIndexLocked() takes the first server with this id or address.
Matches(list, id) == {k \in DOMAIN list : id \in {list[k].id, list[k].address}}
Found(list, id) == Min(Matches(list, id))

\* The elements of a list that belong to a set, in their order.
Kept(list, S) ==
    LET kept[n \in 0 .. Len(list)] ==
            IF n = 0 THEN <<>>
            ELSE IF list[n] \in S THEN Append(kept[n - 1], list[n])
            ELSE kept[n - 1]
    IN  kept[Len(list)]
-----------------------------------------------------------------------------
\* The addresses a rescan asks beside those that the broadcast finds.
Known(found) == (manual \cup DefaultNode) \ Range(found)

\* The list a rescan makes: first the servers that answered the broadcast, with
\* their status, then the known addresses, of which a manual one need not answer.
Scanned(found, status, answer) ==
    LET named == [k \in DOMAIN found |->
                     [NewServer(found[k], status[found[k]])
                          EXCEPT !.id = <<"found", Host[found[k]], found[k]>>]]
        known == Kept(Addresses, {a \in Known(found) : answer[a] # Silence \/ a \in manual})
    IN  named \o [k \in DOMAIN known |-> NewServer(known[k], answer[known[k]])]

\* What the constructor's own scan finds on a network that does not answer.
Init ==
    /\ plugins = [i \in Instance |-> None]
    /\ manual \in SUBSET Typed
    /\ dspEngineRunning = TRUE
    /\ window = "idle" /\ targets = <<>>
    /\ servers = Scanned(<<>>, <<>>, [a \in Known(<<>>) |-> Silence])

\* rescanServers() holds the mutex from the broadcast to the new list.  Either thread
\* calls it, and the window's as the second half of addManualServer().
Rescan ==
    /\ \/ UNCHANGED window
       \/ window = "adding" /\ window' = "idle"
    /\ \E heard \in SUBSET Numeric :
          \E found \in SetToSeqs(heard), status \in [heard -> Info] :
              \E answer \in [Known(found) -> Answer] :
                  servers' = Updated(Scanned(found, status, answer), plugins)
    /\ UNCHANGED <<plugins, dspEngineRunning, manual, targets>>

AddManualServer(a) ==
    /\ window = "idle"
    /\ manual' = manual \cup {a}
    /\ window' = "adding"
    /\ UNCHANGED <<servers, plugins, dspEngineRunning, targets>>

RemoveServer(id) ==
    /\ window = "idle"
    /\ servers' = Kept(servers, {s \in Range(servers) : s.id # id})
    /\ UNCHANGED <<plugins, dspEngineRunning, manual, window, targets>>

ClearJitterLatch(id) ==
    /\ window = "idle"
    /\ Matches(servers, id) # {}
    /\ LET k == Found(servers, id)
       IN  servers' = [servers EXCEPT ![k].latched = FALSE, ![k].peakHigh = servers[k].high]
    /\ UNCHANGED <<plugins, dspEngineRunning, manual, window, targets>>

SetDspEngineRunning(running) ==
    /\ window = "idle"
    /\ dspEngineRunning' = running
    /\ UNCHANGED <<servers, plugins, manual, window, targets>>
-----------------------------------------------------------------------------
\* refreshServerTelemetry(): remember whom to ask.
Refresh ==
    /\ window = "idle"
    /\ window' = "refreshing"
    /\ targets' = [k \in DOMAIN servers |-> [id |-> servers[k].id, address |-> servers[k].address]]
    /\ UNCHANGED <<servers, plugins, dspEngineRunning, manual>>

\* Mutant of WithJitter: the latch follows the peak.
WithPeakOnly(server, high, peakHigh) ==
    [server EXCEPT !.high = high, !.peakHigh = peakHigh, !.latched = peakHigh]

\* A new jitter: the peak is not below it, and an old peak fades.
WithJitter(server, high, peakHigh) ==
    [server EXCEPT !.high = high, !.peakHigh = peakHigh, !.latched = @ \/ peakHigh]

Peaks(server, high) == IF high THEN {TRUE} ELSE {FALSE, server.peakHigh}

\* Mutant of Refreshed: a new entry counts from zero.
RefreshedAnew(server, address, answer, high, peakHigh) ==
    IF Live(answer) THEN WithJitter([NewServer(address, answer) EXCEPT !.latched = server.latched], high, peakHigh)
    ELSE IF answer # Silence THEN WithJitter(server, high, peakHigh)
    ELSE server

\* What an answer of the server at this address makes of an entry: the status
\* makes a new entry, which keeps the channels, the peak and the latch.
Refreshed(server, address, answer, high, peakHigh) ==
    IF Live(answer)
    THEN WithJitter([NewServer(address, answer) EXCEPT !.usedChannels = server.usedChannels,
                                                       !.latched = server.latched],
                    high, peakHigh)
    ELSE IF answer # Silence THEN WithJitter(server, high, peakHigh)
    ELSE server

\* Mutant of Entry: the place in the list is not looked up again.
EntryAsListed(target) ==
    {k \in DOMAIN servers : k = Len(servers) - Len(targets) + 1}

\* The entry an answer is written to, if the list still has it.
Entry(target) ==
    IF Matches(servers, target.id) = {} THEN {} ELSE {Found(servers, target.id)}

\* One server has been asked, and its entry is looked up again by its id.
RefreshOne ==
    LET target == Head(targets)
    IN  /\ window = "refreshing" /\ targets # <<>>
        /\ targets' = Tail(targets)
        /\ \/ Entry(target) = {} /\ UNCHANGED servers
           \/ \E k \in Entry(target), answer \in Answer, high \in BOOLEAN :
                  \E peakHigh \in Peaks(servers[k], high) :
                      servers' = [servers EXCEPT ![k] =
                                      Refreshed(@, target.address, answer, high, peakHigh)]
        /\ UNCHANGED <<plugins, dspEngineRunning, manual, window>>

RefreshEnds ==
    /\ window = "refreshing" /\ targets = <<>>
    /\ window' = "idle"
    /\ UNCHANGED <<servers, plugins, dspEngineRunning, manual, targets>>
-----------------------------------------------------------------------------
\* Native and internal instances, and those that fall back to native, need no server,
\* and their channels are not counted.
Local == [mode |-> "Local", status |-> "Ready", channels |-> 0]

External(request, status) ==
    [mode |-> "ExternalDsp", status |-> status, channels |-> request.channels]

\* An instance that cannot run where it asked to runs natively if it may, and
\* otherwise is left assigned to the external mode all the same.
Refused(request) ==
    IF request.fallback THEN Local ELSE External(request, "Refused")

\* The first server is as good as any when none is asked for.
Selected(request) == IF request.server = None THEN 1 ELSE Found(servers, request.server)

NoServer(request) ==
    \/ ~dspEngineRunning
    \/ servers = <<>>
    \/ request.server # None /\ Matches(servers, request.server) = {}

Fits(server, request) == (server.usedChannels + request.channels) % Wrap <= server.maxChannels

\* Does the selected server have the module, a steady clock and room?
Accepts(server, request) ==
    /\ request.module \in server.modules
    /\ ~server.latched /\ ~server.high
    /\ Fits(server, request)

\* assignLocked() for the external mode.
Assignment(request) ==
    IF NoServer(request) \/ ~Accepts(servers[Selected(request)], request)
    THEN Refused(request)
    ELSE External(request, "Ready")

\* A request may name no server, one in the list or one that is not.  Naming no
\* module is like naming one that every server has.
Request == [server : {None, <<"gone">>} \cup {servers[k].id : k \in DOMAIN servers},
            module : Module, channels : ChannelCount, fallback : BOOLEAN]

SetPlugin(i, state) ==
    /\ plugins' = [plugins EXCEPT ![i] = state]
    /\ servers' = Updated(servers, plugins')
    /\ UNCHANGED <<dspEngineRunning, manual, window, targets>>

\* registerPlugin(), also for an instance that is registered already.
RegisterPlugin(i) ==
    \/ SetPlugin(i, Local)
    \/ \E request \in Request : SetPlugin(i, Assignment(request))

UnregisterPlugin(i) == SetPlugin(i, None)
-----------------------------------------------------------------------------
Next ==
    \/ Rescan
    \/ \E a \in Typed : AddManualServer(a)
    \/ \E id \in ServerId : RemoveServer(id) \/ ClearJitterLatch(id)
    \/ \E running \in BOOLEAN : SetDspEngineRunning(running)
    \/ Refresh \/ RefreshOne \/ RefreshEnds
    \/ \E i \in Instance : RegisterPlugin(i) \/ UnregisterPlugin(i)

Spec == Init /\ [][Next]_vars
-----------------------------------------------------------------------------
\* Who is told that it is ready on a server has room there: the channels of all external
\* instances, its own among them, are no more than the server last said it has, whichever
\* servers were lost, found again, refreshed with another number of channels or replaced while a
\* refresh had let go of the mutex.  (A server may later say it has fewer; nobody is
\* told.)  Where the sum does not fit 32 bits, nothing is promised: channelCount is
\* taken from the message as it is, and counted also when the instance was refused.
ToldReady(i, request) ==
    plugins'[i] = External(request, "Ready") /\ plugins'[i] = Assignment(request)
ReadyFits ==
    [][\A i \in Instance : SetPlugin(i, plugins'[i]) =>
           \A request \in Request :
               ToldReady(i, request) /\ Channels(plugins, OnServers(plugins)) + request.channels < Wrap =>
                   Channels(plugins', OnServers(plugins')) <= servers[Selected(request)].maxChannels]_vars

\* However the list was rescanned, reordered or shortened while a refresh was asking: a
\* machine is listed no more often than it has addresses, so that one with one address
\* is listed once.  (One with two may have one address listed twice and the other lost: a
\* refresh gives both entries the host name as id, and writes the answers for both to the first.)
AddressesOf(name) == {a \in Address : Host[a] = name}
Entries(name) == {k \in DOMAIN servers : Host[servers[k].address] = name}
ListedOnce ==
    \A name \in Range(Host) : Cardinality(Entries(name)) <= Cardinality(AddressesOf(name))

\* A refresh that comes back to a changed list writes an answer only to an entry of the machine
\* that gave it, and never unlatches one, whatever the answer and however far the peak
\* has faded: only the user does, or a new scan of the network.
LatchHolds ==
    [][RefreshOne =>
           \A k \in DOMAIN servers :
               /\ Host[servers'[k].address] = Host[servers[k].address]
               /\ servers[k].latched => servers'[k].latched]_vars
=============================================================================
