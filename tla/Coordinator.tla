---------------------------- MODULE Coordinator -----------------------------
(***************************************************************************)
(* Statistics, from the messages a gateway counts to the page that shows   *)
(* them: ServiceStats and the timer of each service at a gateway, the      *)
(* StatisticsManager of the coordinator, the StatsBroadcasterService with  *)
(* its timer, the StatsHub that web clients call, and the web client.      *)
(*                                                                         *)
(* All messages have one size, and a count stands for a rate.  What the    *)
(* hub sends reaches a browser at once; what a browser asks for waits its  *)
(* turn in the hub, which works on one invocation of a connection at a     *)
(* time.  The awaits inside a hub method let every other actor in.         *)
(***************************************************************************)
EXTENDS Integers, FiniteSets, Sequences, SequencesExt, FiniteSetsExt, Functions

CONSTANTS
  Gateways, Services,   (* names, as sequences of tokens                   *)
  Subjects,
  BadSubjects,          (* subjects that JSON cannot represent             *)
  TopItems,             (* the length of the top list: 15                  *)
  Clients,              (* browsers                                        *)
  MaxInTransit,         (* bound: snapshots on their way from a gateway    *)
  MaxEvents             (* bound: messages counted, connections made or    *)
                        (* lost and clicks of users, all together          *)

(* Key as it would be if the service were left out.                        *)
Key_GatewayOnly(gateway, service) == gateway

(* Snapshots are stored by "[gateway-name].[service-name]".                *)
Key(gateway, service) == gateway \o service

ASSUME CoordinatorAssumption ==
  /\ BadSubjects \subseteq Subjects
  /\ IsFiniteSet(Subjects) /\ IsFiniteSet(Gateways) /\ IsFiniteSet(Services)
  /\ TopItems \in Nat \ {0}
  /\ {MaxInTransit, MaxEvents} \subseteq Nat
  /\ \A g, h \in Gateways, s, t \in Services : Key(g, s) = Key(h, t) => <<g, s>> = <<h, t>>

Reporters == Gateways \X Services

VARIABLES
  m_total,                        (* each gateway and service              *)
  m_statsPerSubject,
  armed,                          (* its timer is going to tick            *)
  m_coordinatorConnected,         (* each gateway                          *)
  inTransit,                      (* each gateway: snapshots to coordinator *)
  m_statsSnapshots,               (* key -> latest snapshot                *)
  m_serviceDetailsSubscriptions,  (* services whose details are broadcast  *)
  broadcasting,                   (* those this tick has still to send     *)
  groups,                         (* each connection: the groups it is in  *)
  hub,                            (* each connection: its invocations      *)
  connection,                     (* each browser: state of its connection *)
  effects,                        (* each browser: effects of ServiceDetail *)
  overview,                       (* services the dashboard knows of       *)
  shown,                          (* the details the page shows            *)
  undone,                         (* each browser: since it subscribed, somebody unsubscribed *)
                                  (* from a service of its, or its connection was lost *)
  events                          (* how many events there were            *)

gatewayVars == <<m_total, m_statsPerSubject, armed, m_coordinatorConnected>>
statsVars   == <<gatewayVars, inTransit, m_statsSnapshots>>
hubVars     == <<m_serviceDetailsSubscriptions, groups, undone>>
browserVars == <<connection, effects>>
vars == <<statsVars, hubVars, broadcasting, hub, browserVars, overview, shown, events>>

NoDetails == -1
NoCounts  == [x \in Subjects |-> 0]

Init ==
  /\ m_total           = [r \in Reporters |-> 0]
  /\ m_statsPerSubject = [r \in Reporters |-> NoCounts]
  /\ armed             = [r \in Reporters |-> TRUE]
  /\ m_coordinatorConnected = [g \in Gateways |-> FALSE]
  /\ inTransit         = [g \in Gateways |-> << >>]
  /\ m_statsSnapshots  = << >>
  /\ m_serviceDetailsSubscriptions = {}
  /\ broadcasting = {}
  /\ groups       = [c \in Clients |-> {}]
  /\ hub          = [c \in Clients |-> << >>]
  /\ connection   = [c \in Clients |-> "none"]
  /\ effects      = [c \in Clients |-> << >>]
  /\ overview     = [c \in Clients |-> {}]
  /\ shown        = [c \in Clients |-> NoDetails]
  /\ undone       = [c \in Clients |-> FALSE]
  /\ events       = 0
-----------------------------------------------------------------------------
(* ServiceStats, and the timer of a service                                *)

add(r, x) ==
  /\ m_total' = [m_total EXCEPT ![r] = @ + 1]
  /\ m_statsPerSubject' = [m_statsPerSubject EXCEPT ![r][x] = @ + 1]
  /\ UNCHANGED <<armed, m_coordinatorConnected, inTransit, m_statsSnapshots, hubVars, broadcasting,
                 hub, browserVars, overview, shown>>

(* The sets of subjects that a sort by counts may put on top.              *)
getTopItems(counts) ==
  LET seen == {x \in Subjects : counts[x] > 0} IN
  {top \in kSubset(IF Cardinality(seen) < TopItems THEN Cardinality(seen) ELSE TopItems, seen) :
     \A x \in top, y \in seen \ top : counts[x] >= counts[y]}

getSnapshot(r, top) ==
  [service |-> r[2], total |-> m_total[r],
   top |-> [x \in Subjects |-> IF x \in top THEN m_statsPerSubject[r][x] ELSE 0]]

(* reset as it would be if the counts per subject were left as they are.   *)
reset_TotalOnly(r) ==
  /\ m_total' = [m_total EXCEPT ![r] = 0]
  /\ UNCHANGED m_statsPerSubject

reset(r) ==
  /\ m_total' = [m_total EXCEPT ![r] = 0]
  /\ m_statsPerSubject' = [m_statsPerSubject EXCEPT ![r] = NoCounts]

(* The counts are reset whatever becomes of the snapshot: a subject that   *)
(* cannot be written as JSON ends the timer, and without a connection the  *)
(* snapshot is dropped.                                                    *)
onStatsTimer(r) ==
  LET g == r[1] IN
  /\ armed[r]
  /\ Len(inTransit[g]) < MaxInTransit
  /\ reset(r)
  /\ \E top \in getTopItems(m_statsPerSubject[r]) :
       IF top \cap BadSubjects # {}
       THEN armed' = [armed EXCEPT ![r] = FALSE] /\ UNCHANGED inTransit
       ELSE /\ inTransit' = IF m_coordinatorConnected[g]
                            THEN [inTransit EXCEPT ![g] = Append(@, getSnapshot(r, top))]
                            ELSE inTransit
            /\ UNCHANGED armed
  /\ UNCHANGED <<m_coordinatorConnected, m_statsSnapshots, hubVars, broadcasting, hub,
                 browserVars, overview, shown>>

(* Nothing takes it back when the connection is lost.                      *)
onCoordinatorConnectionNotification(g) ==
  /\ ~m_coordinatorConnected[g]
  /\ m_coordinatorConnected' = [m_coordinatorConnected EXCEPT ![g] = TRUE]
  /\ UNCHANGED <<m_total, m_statsPerSubject, armed, inTransit, m_statsSnapshots, hubVars,
                 broadcasting, hub, browserVars, overview, shown>>
-----------------------------------------------------------------------------
(* The StatisticsManager                                                   *)

onStatsMessage(g) ==
  LET snapshot == Head(inTransit[g])
      key      == Key(g, snapshot.service)
  IN  /\ inTransit[g] # << >>
      /\ inTransit' = [inTransit EXCEPT ![g] = Tail(@)]
      /\ m_statsSnapshots' = [k \in DOMAIN m_statsSnapshots \cup {key} |->
                                IF k = key THEN snapshot ELSE m_statsSnapshots[k]]
      /\ UNCHANGED <<gatewayVars, hubVars, broadcasting, hub, browserVars, overview, shown>>

KeysOf(service) == {k \in DOMAIN m_statsSnapshots : m_statsSnapshots[k].service = service}

getServiceOverview(service) ==
  SumFunctionOnSet([k \in DOMAIN m_statsSnapshots |-> m_statsSnapshots[k].total], KeysOf(service))

getServiceOverviews == {m_statsSnapshots[k].service : k \in DOMAIN m_statsSnapshots}

(* The top subjects of all gateways, merged; nothing is cut off again.     *)
mergeTopSubjects(service) ==
  [x \in Subjects |->
     SumFunctionOnSet([k \in DOMAIN m_statsSnapshots |-> m_statsSnapshots[k].top[x]], KeysOf(service))]
-----------------------------------------------------------------------------
(* What the hub sends to a browser                                         *)

Current(c)  == Last(effects[c])
Open(c)     == effects[c] # << >> /\ ~Current(c).cleaned
Hears(c, s) == Open(c) /\ Current(c).phase = "active" /\ Current(c).service = s

(* ServiceDetailsUpdate: a page that is paused lets it pass.               *)
Details(targets, s) ==
  shown' = [c \in Clients |-> IF c \in targets /\ Hears(c, s) /\ ~Current(c).paused
                              THEN getServiceOverview(s) ELSE shown[c]]

(* ServiceOverviewsUpdate: the dashboard is there when no other page is.   *)
Overviews(targets) ==
  overview' = [c \in Clients |-> IF c \in targets /\ ~Open(c) THEN getServiceOverviews ELSE overview[c]]

Connected == {c \in Clients : connection[c] = "connected"}

(* A tick of the broadcast timer: the overviews and, one after the other,  *)
(* the details of the services that were registered when it began.  The    *)
(* timer does not wait for the tick before to end.                         *)
broadcastServiceOverviews ==
  /\ Overviews(Connected)
  /\ broadcasting' = broadcasting \cup m_serviceDetailsSubscriptions
  /\ UNCHANGED <<statsVars, hubVars, hub, browserVars, shown>>

broadcastServiceDetails(s) ==
  /\ s \in broadcasting
  /\ broadcasting' = broadcasting \ {s}
  /\ Details({c \in Clients : s \in groups[c]}, s)
  /\ UNCHANGED <<statsVars, hubVars, hub, browserVars, overview>>
-----------------------------------------------------------------------------
(* The StatsHub                                                            *)

Invocation(c) == Head(hub[c])
Asks(c, method, step) ==
  hub[c] # << >> /\ Invocation(c).method = method /\ Invocation(c).step = step
NextStep(c) == hub' = [hub EXCEPT ![c][1].step = "register"]

AddToGroup(c) ==
  /\ Asks(c, "Subscribe", "group")
  /\ groups' = [groups EXCEPT ![c] = @ \cup {Invocation(c).service}]
  /\ NextStep(c)
  /\ UNCHANGED <<statsVars, m_serviceDetailsSubscriptions, undone, broadcasting, browserVars, overview, shown>>

(* The invocation is complete, and setupSubscription goes on.              *)
Completed(c, e) ==
  /\ hub' = [hub EXCEPT ![c] = Tail(@)]
  /\ effects' = IF effects[c][e].phase = "subscribing"
                THEN [effects EXCEPT ![c][e].phase = "active"] ELSE effects

(* SubscribeToServiceDetails as it would be without registerForServiceDetails. *)
RegisterAndReply_JoinsOnly(c) ==
  LET s == Invocation(c).service IN
  /\ Asks(c, "Subscribe", "register")
  /\ undone' = [undone EXCEPT ![c] = FALSE]
  /\ Details({c}, s)
  /\ Completed(c, Invocation(c).effect)
  /\ UNCHANGED <<statsVars, m_serviceDetailsSubscriptions, groups, broadcasting, connection, overview>>

(* The first snapshot is sent ahead of the reply, which a page waits for   *)
(* before it listens.                                                      *)
RegisterAndReply(c) ==
  LET s == Invocation(c).service IN
  /\ Asks(c, "Subscribe", "register")
  /\ m_serviceDetailsSubscriptions' = m_serviceDetailsSubscriptions \cup {s}
  /\ undone' = [undone EXCEPT ![c] = FALSE]
  /\ Details({c}, s)
  /\ Completed(c, Invocation(c).effect)
  /\ UNCHANGED <<statsVars, groups, broadcasting, connection, overview>>

RemoveFromGroup(c) ==
  /\ Asks(c, "Unsubscribe", "group")
  /\ groups' = [groups EXCEPT ![c] = @ \ {Invocation(c).service}]
  /\ undone' = [undone EXCEPT ![c] = TRUE]
  /\ NextStep(c)
  /\ UNCHANGED <<statsVars, m_serviceDetailsSubscriptions, broadcasting, browserVars, overview, shown>>

(* The service goes, whoever else is in its group.                         *)
Unregister(c) ==
  LET s == Invocation(c).service IN
  /\ Asks(c, "Unsubscribe", "register")
  /\ m_serviceDetailsSubscriptions' = m_serviceDetailsSubscriptions \ {s}
  /\ undone' = [d \in Clients |-> undone[d] \/ s \in groups[d]]
  /\ hub' = [hub EXCEPT ![c] = Tail(@)]
  /\ UNCHANGED <<statsVars, groups, broadcasting, browserVars, overview, shown>>
-----------------------------------------------------------------------------
(* The web client: the connection of signalRService                        *)

(* start, which the Dashboard does not wait for.                           *)
openDashboard(c) ==
  /\ connection[c] = "none"
  /\ connection' = [connection EXCEPT ![c] = "connecting"]
  /\ UNCHANGED <<statsVars, hubVars, broadcasting, hub, effects, overview, shown>>

invoke(c, method, s, e) ==
  hub' = [hub EXCEPT ![c] = Append(@, [method |-> method, service |-> s, effect |-> e, step |-> "group"])]

(* The effect of c that awaits connection.start().                         *)
Awaiting(c) == {e \in DOMAIN effects[c] : effects[c][e].phase = "connecting"}

connectionStarts(c) ==
  /\ connection[c] = "connecting"
  /\ connection' = [connection EXCEPT ![c] = "connected"]
  /\ Overviews({c})
  /\ IF Awaiting(c) = {} THEN UNCHANGED <<effects, hub>>
     ELSE \E e \in Awaiting(c) :
            /\ effects' = [effects EXCEPT ![c][e].phase = "subscribing"]
            /\ invoke(c, "Subscribe", effects[c][e].service, e)
  /\ UNCHANGED <<statsVars, hubVars, broadcasting, shown>>

Fail(c, phase) ==
  effects' = [effects EXCEPT ![c] =
    [e \in DOMAIN @ |-> IF @[e].phase = phase THEN [@[e] EXCEPT !.phase = "failed"] ELSE @[e]]]

(* A connection object that failed to start is kept and not started again. *)
connectionFails(c) ==
  /\ connection[c] = "connecting"
  /\ connection' = [connection EXCEPT ![c] = "closed"]
  /\ Fail(c, "connecting")
  /\ UNCHANGED <<statsVars, hubVars, broadcasting, hub, overview, shown>>

(* The invocation the hub is at is of this method.                         *)
Finishes(c, method) ==
  hub[c] # << >> /\ Invocation(c).method = method

(* The hub goes on with the invocation it is at, to its end, or has yet to *)
(* begin it.  It tells nobody, and forgets the connection and its groups,  *)
(* not the services.                                                       *)
connectionLost(c) ==
  /\ connection[c] = "connected"
  /\ connection' = [connection EXCEPT ![c] = "reconnecting"]
  /\ groups' = [groups EXCEPT ![c] = {}]
  /\ hub' = [hub EXCEPT ![c] = << >>]
  /\ \/ /\ Finishes(c, "Subscribe")
        /\ m_serviceDetailsSubscriptions' = m_serviceDetailsSubscriptions \cup {Invocation(c).service}
        /\ undone' = [undone EXCEPT ![c] = TRUE]
     \/ /\ Finishes(c, "Unsubscribe")
        /\ m_serviceDetailsSubscriptions' = m_serviceDetailsSubscriptions \ {Invocation(c).service}
        /\ undone' = [d \in Clients |-> undone[d] \/ d = c \/ Invocation(c).service \in groups[d]]
     \/ /\ hub[c] # << >> => Invocation(c).step = "group"
        /\ UNCHANGED m_serviceDetailsSubscriptions
        /\ undone' = [undone EXCEPT ![c] = TRUE]
  /\ Fail(c, "subscribing")
  /\ UNCHANGED <<statsVars, broadcasting, overview, shown>>

(* Nobody subscribes again.                                                *)
onreconnected(c) ==
  /\ connection[c] = "reconnecting"
  /\ \/ connection' = [connection EXCEPT ![c] = "connected"] /\ Overviews({c})
     \/ connection' = [connection EXCEPT ![c] = "closed"] /\ UNCHANGED overview
  /\ UNCHANGED <<statsVars, hubVars, broadcasting, hub, effects, shown>>
-----------------------------------------------------------------------------
(* The web client: the effect of the ServiceDetail page                    *)

Effect(s, paused) == [service |-> s, paused |-> paused, phase |-> "starting", cleaned |-> FALSE]

openServiceDetail(c, s) ==
  /\ ~Open(c)
  /\ effects' = [effects EXCEPT ![c] = Append(@, Effect(s, FALSE))]
  /\ shown' = [shown EXCEPT ![c] = NoDetails]
  /\ UNCHANGED <<statsVars, hubVars, broadcasting, hub, connection, overview>>

(* Cleaned as it would be if the cleanup did not wait for the setup.       *)
Cleaned_NotAwaited(c) ==
  [effects[c] EXCEPT ![Len(effects[c])].cleaned = TRUE,
                     ![Len(effects[c])].phase = IF @ = "active" THEN @ ELSE "done"]

Cleaned(c) == [effects[c] EXCEPT ![Len(effects[c])].cleaned = TRUE]

handleBackClick(c) ==
  /\ Open(c)
  /\ effects' = [effects EXCEPT ![c] = Cleaned(c)]
  /\ overview' = [overview EXCEPT ![c] = {}]
  /\ UNCHANGED <<statsVars, hubVars, broadcasting, hub, connection, shown>>

(* The effect depends on isPaused: it is cleaned up and runs once more.    *)
handleTogglePause(c) ==
  /\ Open(c)
  /\ effects' = [effects EXCEPT ![c] = Append(Cleaned(c), Effect(Current(c).service, ~Current(c).paused))]
  /\ UNCHANGED <<statsVars, hubVars, broadcasting, hub, connection, overview, shown>>

(* start, which returns at once if there is a connection of any state, and *)
(* the invocation, which needs one that is connected.  The cleanup of an   *)
(* earlier effect that is due runs before.                                 *)
setupSubscription(c, e) ==
  /\ effects[c][e].phase = "starting"
  /\ \A f \in 1 .. e - 1 : ~(effects[c][f].phase = "active" /\ effects[c][f].cleaned)
  /\ \/ /\ connection[c] = "none"
        /\ connection' = [connection EXCEPT ![c] = "connecting"]
        /\ effects' = [effects EXCEPT ![c][e].phase = "connecting"]
        /\ UNCHANGED hub
     \/ /\ connection[c] = "connected"
        /\ effects' = [effects EXCEPT ![c][e].phase = "subscribing"]
        /\ invoke(c, "Subscribe", effects[c][e].service, e)
        /\ UNCHANGED connection
     \/ /\ connection[c] \in {"connecting", "reconnecting", "closed"}
        /\ effects' = [effects EXCEPT ![c][e].phase = "failed"]
        /\ UNCHANGED <<connection, hub>>
  /\ UNCHANGED <<statsVars, hubVars, broadcasting, overview, shown>>

(* cleanup.then(fn => fn()): it does not wait for the unsubscribe.         *)
cleanup(c, e) ==
  /\ effects[c][e].phase = "active" /\ effects[c][e].cleaned
  /\ effects' = [effects EXCEPT ![c][e].phase = "done"]
  /\ IF connection[c] = "connected" THEN invoke(c, "Unsubscribe", effects[c][e].service, e)
     ELSE UNCHANGED hub
  /\ UNCHANGED <<statsVars, hubVars, broadcasting, connection, overview, shown>>
-----------------------------------------------------------------------------
GatewayStep(g) ==
  /\ \/ \E s \in Services : onStatsTimer(<<g, s>>)
     \/ onStatsMessage(g)
  /\ UNCHANGED events

HubStep(c) ==
  /\ AddToGroup(c) \/ RegisterAndReply(c) \/ RemoveFromGroup(c) \/ Unregister(c)
  /\ UNCHANGED events

BrowserStep(c) ==
  /\ \/ connectionStarts(c)
     \/ \E e \in DOMAIN effects[c] : setupSubscription(c, e) \/ cleanup(c, e)
  /\ UNCHANGED events

Reconnect(c) == onreconnected(c) /\ UNCHANGED events

Tick(s) ==
  /\ broadcastServiceOverviews \/ broadcastServiceDetails(s)
  /\ UNCHANGED events

Event ==
  /\ events < MaxEvents
  /\ events' = events + 1
  /\ \/ \E r \in Reporters, x \in Subjects : add(r, x)
     \/ \E g \in Gateways : onCoordinatorConnectionNotification(g)
     \/ \E c \in Clients :
          \/ openDashboard(c) \/ handleBackClick(c) \/ handleTogglePause(c)
          \/ connectionFails(c) \/ connectionLost(c)
          \/ \E s \in Services : openServiceDetail(c, s)

Next ==
  \/ Event
  \/ \E g \in Gateways : GatewayStep(g)
  \/ \E s \in Services : Tick(s)
  \/ \E c \in Clients : HubStep(c) \/ BrowserStep(c) \/ Reconnect(c)

Spec == Init /\ [][Next]_vars

(* The broadcast timer ticks and its ticks go on, the hub works and        *)
(* browsers run their code.  Nothing is asked of the gateways, of users or *)
(* of connections.                                                         *)
Fairness ==
  /\ WF_vars(broadcastServiceOverviews /\ UNCHANGED events)
  /\ \A s \in Services : WF_vars(broadcastServiceDetails(s) /\ UNCHANGED events)
  /\ \A c \in Clients : WF_vars(HubStep(c)) /\ WF_vars(BrowserStep(c))

FairSpec == Spec /\ Fairness
-----------------------------------------------------------------------------
(* Properties                                                              *)

Snapshots == [service : Services, total : 0 .. MaxEvents, top : [Subjects -> 0 .. MaxEvents]]
Phases == {"starting", "connecting", "subscribing", "active", "failed", "done"}

(* Every variable has its type; a snapshot is stored for one service of    *)
(* one gateway (StatisticsManager::onStatsMessage).                        *)
TypeOK ==
  /\ m_total \in [Reporters -> 0 .. MaxEvents]
  /\ m_statsPerSubject \in [Reporters -> [Subjects -> 0 .. MaxEvents]]
  /\ armed \in [Reporters -> BOOLEAN]
  /\ m_coordinatorConnected \in [Gateways -> BOOLEAN]
  /\ \A g \in Gateways : Len(inTransit[g]) <= MaxInTransit /\ ToSet(inTransit[g]) \subseteq Snapshots
  /\ DOMAIN m_statsSnapshots \subseteq {r[1] \o r[2] : r \in Reporters}
  /\ Range(m_statsSnapshots) \subseteq Snapshots
  /\ m_serviceDetailsSubscriptions \subseteq Services /\ broadcasting \subseteq Services
  /\ groups \in [Clients -> SUBSET Services] /\ overview \in [Clients -> SUBSET Services]
  /\ \A c \in Clients : \A i \in DOMAIN hub[c] :
       /\ hub[c][i].method \in {"Subscribe", "Unsubscribe"} /\ hub[c][i].service \in Services
       /\ hub[c][i].effect \in DOMAIN effects[c] /\ hub[c][i].step \in {"group", "register"}
  /\ connection \in [Clients -> {"none", "connecting", "connected", "reconnecting", "closed"}]
  /\ \A c \in Clients : \A e \in DOMAIN effects[c] : effects[c][e] \in
       [service : Services, paused : BOOLEAN, phase : Phases, cleaned : BOOLEAN]
  /\ \A c \in Clients : shown[c] >= NoDetails
  /\ undone \in [Clients -> BOOLEAN] /\ events \in 0 .. MaxEvents

(* The chart of ServiceDetail takes the sum of the top subjects from the   *)
(* total and calls the rest "Other": merged over any mix of snapshots, old *)
(* or new, the subjects never amount to more than the total.               *)
DetailsAddUp ==
  \A s \in Services :
    SumFunctionOnSet(mergeTopSubjects(s), Subjects) <= getServiceOverview(s)

(* A browser whose pages are all left, with nothing under way, is in no    *)
(* group: however setup, cleanup, pauses and losses of the connection      *)
(* interleave, every subscription is undone (the promise that the cleanup  *)
(* of ServiceDetail waits for).                                            *)
NothingLeftBehind ==
  \A c \in Clients :
    hub[c] = << >> /\ (\A e \in DOMAIN effects[c] : effects[c][e].phase \in {"failed", "done"})
      => groups[c] = {}

(* The page of c is open, subscribed, not paused, and since it subscribed  *)
(* nobody unsubscribed from its service (neither an earlier effect of this *)
(* page nor another browser), nor was its connection lost (connectionLost  *)
(* sets undone): then nobody subscribes it again.                          *)
Watches(c) ==
  /\ connection[c] = "connected" /\ ~undone[c]
  /\ Open(c) /\ Current(c).phase = "active" /\ ~Current(c).paused

(* A dashboard that stays connected shows, again and again, the services   *)
(* the coordinator knows, and a page that goes on watching a service the   *)
(* service's current total (StatsBroadcasterService's broadcasts).  It     *)
(* promises nothing to a page that undone excludes, which may never hear   *)
(* of its service again.                                                   *)
DetailsReachThePage ==
  \A c \in Clients :
    /\ <>[](connection[c] = "connected" /\ ~Open(c)) => []<>(overview[c] = getServiceOverviews)
    /\ <>[]Watches(c) => []<>(Open(c) /\ shown[c] = getServiceOverview(Current(c).service))
=============================================================================
