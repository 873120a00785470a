-------------------------- MODULE EchoClient_proofs --------------------------
(***************************************************************************)
(* The types of a page's Echo and of the hub, the agreement of the hub's   *)
(* tables, and that a settled page hears the channels it keeps, for any    *)
(* sockets, channels and number of broken connections.                     *)
(*                                                                         *)
(* Besides the agreement of the tables HubInv says that a socket that is   *)
(* not in the table of clients is present nowhere, so that entering it     *)
(* there announces nobody, and that a client is subscribed to the presence *)
(* channels it is in, so that leavePresence() finds it in both tables.     *)
(***************************************************************************)
EXTENDS EchoClient, TLAPS

HubInv ==
    /\ HubTypeOK
    /\ PresenceAgrees
    /\ \A s \in Sockets \ clients : presence[s] = {}
    /\ \A s \in Sockets : presence[s] \subseteq channels[s]

\* handleUpgrade() enters a socket that is present nowhere.
LEMMA UpgradeKeeps ==
    ASSUME HubInv, NEW s \in Sockets, Upgrade(s)
    PROVE  HubInv'
BY DEF HubInv, HubTypeOK, PresenceAgrees, Upgrade

\* subscribe() of the hub enters the same socket in both tables.
LEMMA SubscribeKeeps ==
    ASSUME HubInv, NEW s, NEW ch \in Channels, NEW for, HubSubscribe(s, ch, for)
    PROVE  HubInv'
<1>1. CASE UNCHANGED hubVars
  BY <1>1 DEF HubInv, HubTypeOK, PresenceAgrees, hubVars
<1>2. CASE ~UNCHANGED hubVars
  <2>1. s \in clients /\ s \in Sockets /\ clients' = clients
    BY <1>2 DEF HubSubscribe, HubInv, HubTypeOK
  <2>2. /\ channels' = [channels EXCEPT ![s] = @ \cup {ch}]
        /\ presence' = [presence EXCEPT ![s] = @ \cup ({ch} \cap Presence)]
        /\ members' = [p \in Presence |-> IF p = ch THEN members[p] \cup {s} ELSE members[p]]
    BY <1>2 DEF HubSubscribe, JoinPresence, HubInv, HubTypeOK
  <2>3. HubTypeOK'
    BY <2>1, <2>2 DEF HubInv, HubTypeOK
  <2>4. PresenceAgrees'
    BY <2>1, <2>2 DEF HubInv, HubTypeOK, PresenceAgrees
  <2>5. /\ \A q \in Sockets \ clients' : presence'[q] = {}
        /\ \A q \in Sockets : presence'[q] \subseteq channels'[q]
    BY <2>1, <2>2 DEF HubInv, HubTypeOK
  <2> QED BY <2>3, <2>4, <2>5 DEF HubInv
<1> QED BY <1>1, <1>2

\* leavePresence() takes a socket out of both tables, where it is in them.
LEMMA LeaveKeeps ==
    ASSUME HubInv, NEW s \in Sockets, NEW chs, LeavePresence(s, chs)
    PROVE  /\ presence' = [presence EXCEPT ![s] = @ \ chs]
           /\ members' = [p \in Presence |-> IF p \in chs THEN members[p] \ {s} ELSE members[p]]
<1> DEFINE member == {p \in chs \cap Presence : s \in members[p]}
<1>1. presence' = [presence EXCEPT ![s] = @ \ member]
  BY DEF LeavePresence
<1>2. members' = [p \in Presence |-> IF p \in member THEN members[p] \ {s} ELSE members[p]]
  BY DEF LeavePresence
<1>3. \A p \in Presence \cap presence[s] : s \in members[p]
  BY DEF HubInv, PresenceAgrees, HubTypeOK
<1>4. presence[s] \ member = presence[s] \ chs
  BY <1>3 DEF HubInv, HubTypeOK
<1>5. presence' = [presence EXCEPT ![s] = @ \ chs]
  BY <1>1, <1>4 DEF HubInv, HubTypeOK
<1>6. ASSUME NEW p \in Presence
      PROVE  (IF p \in member THEN members[p] \ {s} ELSE members[p])
                 = (IF p \in chs THEN members[p] \ {s} ELSE members[p])
  OBVIOUS
<1>7. members' = [p \in Presence |-> IF p \in chs THEN members[p] \ {s} ELSE members[p]]
  BY <1>2, <1>6
<1> QED BY <1>5, <1>7

\* unsubscribe() of the hub takes it out of the channel as well.
LEMMA UnsubscribeKeeps ==
    ASSUME HubInv, NEW s \in Sockets, NEW ch \in Channels, HubUnsubscribe(s, ch)
    PROVE  HubInv'
<1>1. CASE s \in clients
  BY <1>1, LeaveKeeps DEF HubInv, HubTypeOK, PresenceAgrees, HubUnsubscribe
<1>2. CASE s \notin clients
  BY <1>2 DEF HubInv, HubTypeOK, PresenceAgrees, HubUnsubscribe, hubVars
<1> QED BY <1>1, <1>2

\* removeClient() leaves the socket in neither.
LEMMA RemoveKeeps ==
    ASSUME HubInv, NEW s \in Sockets, RemoveClient(s)
    PROVE  HubInv'
BY LeaveKeeps DEF HubInv, HubTypeOK, PresenceAgrees, RemoveClient

LEMMA StutterKeeps ==
    ASSUME HubInv, UNCHANGED hubVars
    PROVE  HubInv'
BY DEF HubInv, HubTypeOK, PresenceAgrees, hubVars

----------------------------------------------------------------------------
TaskSet == [left : SUBSET Channels, asks : Channels \cup {None}, as : Sockets \cup {0}]

Inv == TypeOK /\ HubInv

\* A loop gets another set of channels to work on.
LEMMA LeftChanges ==
    ASSUME NEW tasks \in [Tasks -> TaskSet], NEW t, NEW left \in SUBSET Channels
    PROVE  [tasks EXCEPT ![t].left = left] \in [Tasks -> TaskSet]
BY DEF TaskSet

\* connect() makes a fresh socket or none.
LEMMA ConnectTypes ==
    ASSUME TypeOK, Connect
    PROVE  /\ link' \in [Sockets -> {"unused", "connecting", "open", "closed"}]
           /\ cur' \in Sockets \cup {0}
           /\ \A s \in Sockets : link'[s] = link[s] \/ link[s] = "unused"
BY DEF TypeOK, Connect

\* What the page announces to the hub goes through the current socket.
LEMMA AnnounceKeeps ==
    ASSUME Inv, NEW ch \in Channels, NEW as, Announce(ch, as)
    PROVE  HubInv' /\ subscribed' \subseteq Channels
BY SubscribeKeeps, StutterKeeps DEF Announce, Inv, TypeOK

\* unsubscribe() of the connector.
LEMMA UnsubscribedKeeps ==
    ASSUME Inv, NEW ch \in Channels, Unsubscribe(ch)
    PROVE  HubInv' /\ subscribed' \subseteq Channels /\ bound' \subseteq Channels
<1>1. HubInv'
  <2>1. CASE IsOpen
    <3>1. cur \in Sockets BY <2>1 DEF IsOpen, Inv, TypeOK
    <3> QED BY <2>1, <3>1, UnsubscribeKeeps DEF Unsubscribe, Inv
  <2>2. CASE ~IsOpen
    BY <2>2, StutterKeeps DEF Unsubscribe, Inv
  <2> QED BY <2>1, <2>2
<1> QED BY <1>1 DEF Unsubscribe, Inv, TypeOK

\* subscribe() of the connector, in any of the loops.
LEMMA SubscribingKeeps ==
    ASSUME Inv, NEW tasks \in [Tasks -> TaskSet], NEW t \in Tasks, NEW ch \in Channels,
           NEW left \in SUBSET Channels, Subscribe(tasks, t, ch, left)
    PROVE  /\ HubInv'
           /\ link' \in [Sockets -> {"unused", "connecting", "open", "closed"}]
           /\ cur' \in Sockets \cup {0}
           /\ \A s \in Sockets : link'[s] = link[s] \/ link[s] = "unused"
           /\ task' \in [Tasks -> TaskSet]
           /\ pending' \subseteq Channels /\ subscribed' \subseteq Channels
           /\ bound' \subseteq Channels /\ joined' \subseteq Channels
<1> DEFINE asks == sid # 0 /\ ch \notin subscribed /\ ch \in Guarded
<1>1. Connect BY DEF Subscribe
<1>2. HubInv' /\ subscribed' \subseteq Channels
  <2>1. CASE sid # 0 /\ ch \notin subscribed /\ ch \notin Guarded
    BY <2>1, AnnounceKeeps DEF Subscribe
  <2>2. CASE ~(sid # 0 /\ ch \notin subscribed /\ ch \notin Guarded)
    BY <2>2, StutterKeeps DEF Subscribe, Inv, TypeOK
  <2> QED BY <2>1, <2>2
<1>3. task' \in [Tasks -> TaskSet]
  <2>1. task' = [tasks EXCEPT ![t] = IF asks THEN [left |-> left, asks |-> ch, as |-> sid]
                                     ELSE [Idle EXCEPT !.left = left]]
    BY DEF Subscribe
  <2>2. sid \in Sockets \cup {0} BY DEF Inv, TypeOK
  <2>3. [left |-> left, asks |-> ch, as |-> sid] \in TaskSet
    BY <2>2 DEF TaskSet
  <2>4. [Idle EXCEPT !.left = left] \in TaskSet
    BY DEF TaskSet, Idle
  <2> QED BY <2>1, <2>3, <2>4
<1>4. bound' \subseteq Channels /\ joined' \subseteq Channels
  BY DEF Subscribe, Subscribed, Inv, TypeOK
<1>5. pending' \subseteq Channels
  BY DEF Subscribe, Inv, TypeOK
<1> QED BY <1>1, <1>2, <1>3, <1>4, <1>5, ConnectTypes DEF Inv

----------------------------------------------------------------------------
LEMMA InitInv == Init => Inv
<1> SUFFICES ASSUME Init PROVE Inv
  OBVIOUS
<1>1. HubInv BY HubAssumption DEF Init, HubInit, HubInv, HubTypeOK, PresenceAgrees
<1>2. task \in [Tasks -> TaskSet] BY DEF Init, Idle, TaskSet
<1>3. drops \in 0 .. MaxDrops BY EchoAssumption DEF Init
<1> QED BY <1>1, <1>2, <1>3 DEF Init, Inv, TypeOK, HubInv, TaskSet

\* The steps of the loops.
LEMMA LoopSteps ==
    ASSUME Inv, NEW t \in Tasks, FlushNext(t) \/ Resubscribe(t) \/ SubscribeAgain(t) \/ Authorized(t)
    PROVE  Inv'
<1>1. task \in [Tasks -> TaskSet] BY DEF Inv, TypeOK, TaskSet
<1>2. CASE FlushNext(t)
  <2>1. PICK ch \in task[t].left : Subscribe(task, t, ch, task[t].left \ {ch})
    BY <1>2 DEF FlushNext
  <2>2. ch \in Channels /\ task[t].left \ {ch} \in SUBSET Channels
    BY <1>1, <2>1 DEF TaskSet
  <2>3. /\ HubInv' /\ cur' \in Sockets \cup {0}
        /\ link' \in [Sockets -> {"unused", "connecting", "open", "closed"}]
        /\ \A s \in Sockets : link'[s] = link[s] \/ link[s] = "unused"
        /\ task' \in [Tasks -> TaskSet]
        /\ pending' \subseteq Channels /\ subscribed' \subseteq Channels
        /\ bound' \subseteq Channels /\ joined' \subseteq Channels
    BY <1>1, <2>1, <2>2, SubscribingKeeps
  <2> QED BY <1>2, <2>3 DEF FlushNext, Inv, TypeOK, TaskSet, HubInv
<1>3. CASE Resubscribe(t)
  <2>1. PICK ch \in task[t].left :
          /\ task' = [task EXCEPT ![t] = [left |-> @.left \ {ch}, asks |-> ch, as |-> 0]]
          /\ joined' = joined \ {ch}
          /\ IF ch \in joined \cap subscribed THEN Unsubscribe(ch)
             ELSE UNCHANGED <<hubVars, subscribed, bound>>
    BY <1>3 DEF Resubscribe
  <2>2. ch \in Channels BY <1>1, <2>1 DEF TaskSet
  <2>3. HubInv' /\ subscribed' \subseteq Channels /\ bound' \subseteq Channels
    BY <2>1, <2>2, UnsubscribedKeeps, StutterKeeps DEF Inv, TypeOK
  <2>4. task' \in [Tasks -> TaskSet]
    BY <1>1, <2>1, <2>2 DEF TaskSet
  <2> QED BY <1>3, <2>1, <2>3, <2>4 DEF Resubscribe, Inv, TypeOK, TaskSet, HubInv
<1>4. CASE SubscribeAgain(t)
  <2>1. CASE task[t].asks \in joined
    <3>1. task' = [task EXCEPT ![t].asks = None] /\ UNCHANGED hubVars
      BY <1>4, <2>1 DEF SubscribeAgain
    <3>2. task' \in [Tasks -> TaskSet] BY <1>1, <3>1 DEF TaskSet
    <3>3. HubInv' BY <3>1, StutterKeeps DEF Inv
    <3> QED BY <1>4, <2>1, <3>2, <3>3 DEF SubscribeAgain, Inv, TypeOK, TaskSet, HubInv
  <2>2. CASE task[t].asks \notin joined
    <3>1. task[t].asks \in Channels /\ task[t].left \in SUBSET Channels
      BY <1>1, <1>4 DEF SubscribeAgain, TaskSet
    <3>2. Subscribe(task, t, task[t].asks, task[t].left)
      BY <1>4, <2>2 DEF SubscribeAgain
    <3> QED BY <1>1, <1>4, <3>1, <3>2, SubscribingKeeps
            DEF SubscribeAgain, Inv, TypeOK, TaskSet, HubInv
  <2> QED BY <2>1, <2>2
<1>5. CASE Authorized(t)
  <2>1. task[t].asks \in Channels BY <1>1, <1>5 DEF Authorized, TaskSet
  <2>2. HubInv' /\ subscribed' \subseteq Channels
    BY <1>5, <2>1, AnnounceKeeps DEF Authorized
  <2>3. task' \in [Tasks -> TaskSet]
    <3>1. task' = [task EXCEPT ![t].asks = None, ![t].as = 0] BY <1>5 DEF Authorized
    <3> QED BY <1>1, <3>1 DEF TaskSet
  <2>4. joined' \subseteq Channels /\ bound' \subseteq Channels
    BY <1>5, <2>1 DEF Authorized, Subscribed, Inv, TypeOK
  <2>5. late' \in BOOLEAN BY <1>5 DEF Authorized, Inv, TypeOK
  <2> QED BY <1>5, <2>2, <2>3, <2>4, <2>5 DEF Authorized, Inv, TypeOK, TaskSet, HubInv
<1> QED BY <1>2, <1>3, <1>4, <1>5

\* What the page does.
LEMMA PageSteps ==
    ASSUME Inv, NEW ch \in Channels, Listen(ch) \/ Leave(ch)
    PROVE  Inv'
<1>1. task \in [Tasks -> TaskSet] BY DEF Inv, TypeOK, TaskSet
<1>2. page' \in [Channels -> {"new", "kept", "left"}]
  BY DEF Listen, Leave, Inv, TypeOK
<1>3. CASE Listen(ch)
  <2> DEFINE others == [t \in Tasks |-> IF t[1] = "channels" /\ Active(t)
                                        THEN [task[t] EXCEPT !.left = @ \cup {ch}]
                                        ELSE task[t]]
  <2>1. others \in [Tasks -> TaskSet] BY <1>1 DEF TaskSet
  <2>2. <<"listen", ch>> \in Tasks BY DEF Tasks
  <2>3. Subscribe(others, <<"listen", ch>>, ch, {}) BY <1>3 DEF Listen
  <2> HIDE DEF others
  <2> QED BY <1>2, <1>3, <2>1, <2>2, <2>3, SubscribingKeeps
          DEF Listen, Inv, TypeOK, TaskSet, HubInv
<1>4. CASE Leave(ch)
  <2>1. HubInv' /\ subscribed' \subseteq Channels /\ bound' \subseteq Channels
    BY <1>4, UnsubscribedKeeps, StutterKeeps DEF Leave, Inv, TypeOK
  <2>2. task' \in [Tasks -> TaskSet]
    <3>1. task' = [t \in Tasks |-> IF t[1] = "channels" THEN [task[t] EXCEPT !.left = @ \ {ch}]
                                   ELSE task[t]]
      BY <1>4 DEF Leave
    <3> QED BY <1>1, <3>1 DEF TaskSet
  <2> QED BY <1>2, <1>4, <2>1, <2>2 DEF Leave, Inv, TypeOK, TaskSet, HubInv
<1> QED BY <1>3, <1>4

\* What happens to the sockets.
LEMMA SocketSteps ==
    ASSUME Inv, NEW s \in Sockets, Open(s) \/ Connected(s) \/ Drop(s) \/ HubCloses(s)
    PROVE  Inv'
<1>1. CASE Open(s)
  <2>1. HubInv' BY <1>1, UpgradeKeeps DEF Open, Inv
  <2> QED BY <1>1, <2>1 DEF Open, Inv, TypeOK, HubInv
<1>2. CASE Connected(s)
  <2>1. HubInv' BY <1>2, StutterKeeps DEF Connected, Inv
  <2>2. task' \in [Tasks -> TaskSet]
    <3>1. task' = [task EXCEPT ![<<"flush", s>>].left = pending, ![<<"channels", s>>].left = Kept]
      BY <1>2 DEF Connected
    <3>2. Kept \subseteq Channels /\ pending \subseteq Channels BY DEF Kept, Inv, TypeOK
    <3>3. [task EXCEPT ![<<"flush", s>>].left = pending] \in [Tasks -> TaskSet]
      BY <3>2, LeftChanges DEF Inv, TypeOK, TaskSet
    <3> QED BY <3>1, <3>2, <3>3, LeftChanges
  <2> QED BY <1>2, <2>1, <2>2 DEF Connected, Inv, TypeOK, TaskSet, HubInv
<1>3. CASE Drop(s)
  <2>1. HubInv' BY <1>3, StutterKeeps DEF Drop, Inv
  <2>2. drops' \in 0 .. MaxDrops BY <1>3, EchoAssumption DEF Drop, Inv, TypeOK
  <2> QED BY <1>3, <2>1, <2>2 DEF Drop, Inv, TypeOK, HubInv
<1>4. CASE HubCloses(s)
  <2>1. HubInv' BY <1>4, RemoveKeeps DEF HubCloses, Inv
  <2> QED BY <1>4, <2>1 DEF HubCloses, echoVars, Inv, TypeOK, HubInv
<1> QED BY <1>1, <1>2, <1>3, <1>4

\* The reconnect timer.
LEMMA ReconnectStep ==
    ASSUME Inv, Reconnect
    PROVE  Inv'
<1>1. HubInv' BY StutterKeeps DEF Reconnect, Inv
<1>2. task' \in [Tasks -> TaskSet]
  <2>1. task' = [task EXCEPT ![<<"all", drops>>].left = subscribed] BY DEF Reconnect
  <2> QED BY <2>1, ZenonT(30) DEF TaskSet, Inv, TypeOK
<1> QED BY <1>1, <1>2, ConnectTypes DEF Reconnect, Inv, TypeOK, TaskSet, HubInv

LEMMA InvSteps == Inv /\ [Next]_vars => Inv'
<1> SUFFICES ASSUME Inv, [Next]_vars PROVE Inv'
  OBVIOUS
<1>1. CASE UNCHANGED vars
  <2>1. HubInv' BY <1>1, StutterKeeps DEF vars, Inv
  <2> QED BY <1>1, <2>1 DEF vars, echoVars, Inv, TypeOK, HubInv
<1>2. CASE Next
  BY <1>2, LoopSteps, PageSteps, SocketSteps, ReconnectStep DEF Next
<1> QED BY <1>1, <1>2

LEMMA InvAlways == Spec => []Inv
BY InitInv, InvSteps, PTL DEF Spec

(***************************************************************************)
(* The state of the page and of the hub keeps its types: in particular the *)
(* page never has the id of a socket that is closed.                       *)
(***************************************************************************)
THEOREM EchoTypes == Spec => []TypeOK
BY InvAlways, PTL DEF Inv

(***************************************************************************)
(* Who is present in a channel, by the hub's table of members, is a client *)
(* in the hub's table that is subscribed to it.                            *)
(***************************************************************************)
THEOREM EchoPresence == Spec => []PresenceAgrees
BY InvAlways, PTL DEF Inv, HubInv

----------------------------------------------------------------------------
(***************************************************************************)
(* Every channel a settled page keeps is heard.                            *)
(*                                                                         *)
(* The loops of one `connected` can only be trusted for the current        *)
(* socket, and only while no answer is under way that was asked for        *)
(* another one: that answer will come late. From the `connected` of the    *)
(* current socket on, every channel is subscribed or some task has it      *)
(* ahead, and a channel of `subscribed` that this socket has not announced *)
(* is one that the loop of this `connected` will first unsubscribe.        *)
(***************************************************************************)

\* A socket that is open on the page is in the hub's table.
OpenClients == \A s \in Sockets : link[s] = "open" => s \in clients

\* Who waits for an answer asked for a socket that was greeted; who has
\* forgotten a subscription goes on with it at once.
TasksAsk ==
    \A t \in Tasks :
        /\ task[t].as \in greeted \cup {0}
        /\ task[t].as # 0 => task[t].asks # None
        /\ task[t].asks # None /\ task[t].as = 0 => t[1] = "channels"

\* The reconnect that is due has not begun its loop.
TimerDue ==
    /\ timer => drops # 0
    /\ \A d \in 1 .. MaxDrops : d > drops \/ (d = drops /\ timer) => task[<<"all", d>>] = Idle

\* Nobody knows of a channel that nobody has listened to.
NewUnknown ==
    \A ch \in Channels : page[ch] = "new" =>
        /\ ch \notin subscribed \cup pending \cup joined
        /\ task[<<"listen", ch>>] = Idle
        /\ \A t \in Tasks : ch \notin task[t].left /\ task[t].asks # ch

\* An EchoChannel is subscribed and bound, or its subscribe() is under way.
Joining ==
    /\ joined \subseteq bound
    /\ \A ch \in Kept \ joined :
          \E t \in Tasks : t[1] \in {"channels", "listen"} /\ task[t].asks = ch

\* An answer was asked for another socket than the current one.
Overtaken == late \/ \E t \in Tasks : task[t].as \notin {0, cur}

Settling == IsOpen /\ sid = cur /\ ~Overtaken

\* Of the loops over Echo's table only the one of the current socket runs,
\* and what it has forgotten nobody else has subscribed.
OwnLoop ==
    \A t \in Tasks : t[1] = "channels" =>
        /\ t # <<"channels", cur>> => task[t] = Idle
        /\ task[t].as = 0 => task[t].asks \notin joined

Ahead(ch) == \E t \in Tasks : ch \in task[t].left \/ task[t].asks = ch

Known == \A ch \in Kept : ch \in subscribed \/ Ahead(ch)

Announced ==
    \A ch \in Kept \cap subscribed :
        \/ ch \in channels[cur]
        \/ ch \in joined /\ ch \in task[<<"channels", cur>>].left

Steady == OpenClients /\ TasksAsk /\ TimerDue /\ NewUnknown /\ Joining

Hearing == OwnLoop /\ Known /\ Announced

Heard == Inv /\ Steady /\ (Settling => Hearing)

\* subscribe() from the send() on: with a token for the current socket the
\* hub enters it in the channel.
LEMMA Announces ==
    ASSUME Inv, NEW ch \in Channels, NEW as, Announce(ch, as)
    PROVE  /\ clients' = clients
           /\ subscribed' = subscribed \cup {ch}
           /\ \A s \in Sockets : channels[s] \subseteq channels'[s]
           /\ OpenClients /\ IsOpen /\ as = cur => ch \in channels'[cur]
<1>1. subscribed' = subscribed \cup {ch}
  BY DEF Announce
<1>2. CASE ~IsOpen
  BY <1>1, <1>2 DEF Announce, hubVars
<1>3. CASE IsOpen
  <2>1. cur \in Sockets /\ HubSubscribe(cur, ch, as)
    BY <1>3 DEF Announce, IsOpen, Inv, TypeOK
  <2>2. clients' = clients
    BY <2>1 DEF HubSubscribe, hubVars
  <2>3. channels' = channels \/ channels' = [channels EXCEPT ![cur] = @ \cup {ch}]
    BY <2>1 DEF HubSubscribe, hubVars
  <2>4. \A s \in Sockets : channels[s] \subseteq channels'[s]
    BY <2>1, <2>3 DEF Inv, HubInv, HubTypeOK
  <2>5. ASSUME OpenClients, as = cur PROVE ch \in channels'[cur]
    <3>1. cur \in clients
      BY <2>1, <2>5, <1>3 DEF OpenClients, IsOpen
    <3>2. channels' = [channels EXCEPT ![cur] = @ \cup {ch}]
      BY <2>1, <2>5, <3>1 DEF HubSubscribe
    <3> QED BY <2>1, <3>2 DEF Inv, HubInv, HubTypeOK
  <2> QED BY <1>1, <2>2, <2>4, <2>5
<1> QED BY <1>2, <1>3

\* resubscribe() and leave() forget a channel: nobody else is unsubscribed,
\* and nothing is left of one whose EchoChannel was subscribed.
Forgets(ch) ==
    IF ch \in joined \cap subscribed THEN Unsubscribe(ch)
    ELSE UNCHANGED <<hubVars, subscribed, bound>>

LEMMA Forgetting ==
    ASSUME Inv, NEW ch \in Channels, Forgets(ch)
    PROVE  /\ clients' = clients
           /\ subscribed \ {ch} \subseteq subscribed' /\ subscribed' \subseteq subscribed
           /\ bound \ {ch} \subseteq bound'
           /\ ch \in joined => ch \notin subscribed'
           /\ \A s \in Sockets : channels[s] \ {ch} \subseteq channels'[s]
           /\ ch \notin joined => channels' = channels
<1>1. CASE ~(ch \in joined \cap subscribed)
  BY <1>1 DEF Forgets, hubVars
<1>2. CASE ch \in joined \cap subscribed
  <2>1. Unsubscribe(ch)
    BY <1>2 DEF Forgets
  <2>2. subscribed' = subscribed \ {ch} /\ bound' = bound \ {ch}
    BY <2>1 DEF Unsubscribe
  <2>3. clients' = clients
    BY <2>1 DEF Unsubscribe, HubUnsubscribe, hubVars
  <2>4. channels' = channels \/ (cur \in Sockets /\ channels' = [channels EXCEPT ![cur] = @ \ {ch}])
    BY <2>1 DEF Unsubscribe, HubUnsubscribe, hubVars, IsOpen, Inv, TypeOK
  <2>5. \A s \in Sockets : channels[s] \ {ch} \subseteq channels'[s]
    BY <2>4 DEF Inv, HubInv, HubTypeOK
  <2> QED BY <1>2, <2>2, <2>3, <2>5
<1> QED BY <1>1, <1>2

\* connect() leaves an open socket alone, and else takes one nobody has used.
LEMMA Connecting ==
    ASSUME Inv, Connect
    PROVE  /\ IsOpen => link' = link /\ cur' = cur
           /\ \A s \in Sockets : link'[s] = "open" => link[s] = "open"
           /\ cur' = cur \/ (cur' \notin greeted /\ link'[cur'] = "connecting")
<1>1. CASE IsOpen
  BY <1>1 DEF Connect
<1>2. CASE ~IsOpen
  <2>1. PICK s \in Sockets : /\ link[s] = "unused" /\ link' = [link EXCEPT ![s] = "connecting"]
                             /\ cur' = s
    BY <1>2 DEF Connect
  <2> QED BY <1>2, <2>1 DEF Inv, TypeOK
<1> QED BY <1>1, <1>2

\* subscribe() of the connector, in any of the loops: the task goes on, and
\* the channel is being asked for, or the call is over and has announced it
\* where it was not yet.
LEMMA Subscribing ==
    ASSUME Inv, OpenClients, NEW tasks \in [Tasks -> TaskSet], NEW t \in Tasks, NEW ch \in Channels,
           NEW left \in SUBSET Channels, Subscribe(tasks, t, ch, left)
    PROVE  /\ clients' = clients
           /\ \A s \in Sockets : channels[s] \subseteq channels'[s]
           /\ subscribed \subseteq subscribed' /\ subscribed' \subseteq subscribed \cup {ch}
           /\ pending' \subseteq pending \cup {ch}
           /\ \A q \in Tasks \ {t} : task'[q] = tasks[q]
           /\ task'[t].left = left
           /\ \/ /\ task'[t].asks = ch /\ task'[t].as = sid /\ sid # 0
                 /\ subscribed' = subscribed
                 /\ joined' = joined /\ bound' = bound
              \/ /\ task'[t].asks = None /\ task'[t].as = 0
                 /\ Subscribed(t, ch)
                 /\ sid # 0 => ch \in subscribed'
           /\ IsOpen /\ sid = cur /\ ch \in subscribed' \ subscribed => ch \in channels'[cur]
<1> DEFINE asks == sid # 0 /\ ch \notin subscribed /\ ch \in Guarded
           next == IF asks THEN [left |-> left, asks |-> ch, as |-> sid]
                   ELSE [Idle EXCEPT !.left = left]
<1>1. task' = [tasks EXCEPT ![t] = next]
  BY DEF Subscribe
<1>2. /\ \A q \in Tasks \ {t} : task'[q] = tasks[q]
      /\ task'[t] = next
  BY <1>1
<1>3. next.left = left
  BY DEF Idle
<1>4. /\ asks => next.asks = ch /\ next.as = sid
      /\ ~asks => next.asks = None /\ next.as = 0
  BY DEF Idle
<1>5. IF asks THEN UNCHANGED <<joined, bound>> ELSE Subscribed(t, ch)
  BY DEF Subscribe
<1>6. pending' \subseteq pending \cup {ch}
  BY DEF Subscribe
<1> HIDE DEF next
<1>7. CASE sid # 0 /\ ch \notin subscribed /\ ch \notin Guarded
  <2>1. Announce(ch, sid)
    BY <1>7 DEF Subscribe
  <2> QED BY <1>2, <1>3, <1>4, <1>5, <1>6, <1>7, <2>1, Announces
<1>8. CASE ~(sid # 0 /\ ch \notin subscribed /\ ch \notin Guarded)
  <2>1. UNCHANGED <<hubVars, subscribed>>
    BY <1>8 DEF Subscribe
  <2> QED BY <1>2, <1>3, <1>4, <1>5, <1>6, <1>8, <2>1 DEF hubVars
<1> QED BY <1>7, <1>8

\* A step that leaves the current socket, unless it is not open yet, and every
\* answer under way overtakes nothing and settles nothing.
LEMMA SettlingStays ==
    ASSUME Inv, TasksAsk, Connect \/ UNCHANGED <<link, cur>>, sid' = sid, late' = late,
           \A q \in Tasks : task[q].as = 0 \/ task'[q].as = task[q].as, Settling'
    PROVE  Settling /\ cur' = cur
<1>1. IsOpen /\ cur' = cur
  BY Connecting DEF Settling, IsOpen, Inv, TypeOK
<1>2. ~Overtaken
  <2>1. ASSUME NEW q \in Tasks, task[q].as # 0 PROVE task[q].as = cur
    BY <1>1, <2>1 DEF Settling, Overtaken
  <2> QED BY <2>1 DEF Settling, Overtaken
<1> QED BY <1>1, <1>2 DEF Settling

\* A task of the loops subscribes to a channel it has.
LEMMA LoopSubscribes ==
    ASSUME Heard, NEW t \in Tasks, NEW ch \in Channels, NEW left \in SUBSET task[t].left,
           Subscribe(task, t, ch, left), UNCHANGED <<greeted, sid, page, timer, drops, late>>,
           Active(t), task[t].as = 0, t[1] # "listen", page[ch] # "new",
           task[t].asks \in {None, ch}, task[t].left \subseteq left \cup {ch},
           t[1] = "channels" => left = task[t].left
    PROVE  Steady' /\ (Settling' => Hearing')
<1> USE NoneAssumption
<1>1. task \in [Tasks -> TaskSet] /\ left \in SUBSET Channels
  BY DEF Heard, Inv, TypeOK, TaskSet
<1>2. /\ clients' = clients
      /\ \A s \in Sockets : channels[s] \subseteq channels'[s]
      /\ subscribed \subseteq subscribed' /\ subscribed' \subseteq subscribed \cup {ch}
      /\ pending' \subseteq pending \cup {ch}
      /\ \A q \in Tasks \ {t} : task'[q] = task[q]
      /\ task'[t].left = left
      /\ \/ /\ task'[t].asks = ch /\ task'[t].as = sid /\ sid # 0
            /\ subscribed' = subscribed
            /\ joined' = joined /\ bound' = bound
         \/ /\ task'[t].asks = None /\ task'[t].as = 0
            /\ Subscribed(t, ch)
            /\ sid # 0 => ch \in subscribed'
      /\ IsOpen /\ sid = cur /\ ch \in subscribed' \ subscribed => ch \in channels'[cur]
  BY <1>1, Subscribing DEF Heard, Steady
<1>3. Connect
  BY DEF Subscribe
<1>4. /\ joined \subseteq joined' /\ joined' \subseteq joined \cup {ch}
      /\ joined' \subseteq Channels
      /\ t[1] # "channels" => joined' = joined
  BY <1>2 DEF Subscribed, Heard, Inv, TypeOK
<1>5. OpenClients'
  BY <1>2, <1>3, Connecting DEF OpenClients, Heard, Steady
<1>6. TasksAsk'
  <2>1. sid \in greeted \cup {0}
    BY DEF Heard, Inv, TypeOK
  <2>2. ASSUME NEW q \in Tasks
        PROVE  /\ task'[q].as \in greeted \cup {0}
               /\ task'[q].as # 0 => task'[q].asks # None
               /\ task'[q].asks # None /\ task'[q].as = 0 => q[1] = "channels"
    <3>1. CASE q = t
      BY <1>2, <2>1, <3>1
    <3>2. CASE q # t
      BY <1>2, <3>2 DEF TasksAsk, Heard, Steady
    <3> QED BY <3>1, <3>2
  <2> QED BY <2>2 DEF TasksAsk
<1>7. TimerDue'
  BY <1>2 DEF TimerDue, Heard, Steady, Active, Tasks
<1>8. NewUnknown'
  <2> SUFFICES ASSUME NEW c \in Channels, page[c] = "new"
               PROVE  /\ c \notin subscribed' \cup pending' \cup joined'
                      /\ task'[<<"listen", c>>] = Idle
                      /\ \A q \in Tasks : c \notin task'[q].left /\ task'[q].asks # c
    BY DEF NewUnknown
  <2>1. c # ch /\ c # None
    OBVIOUS
  <2>2. /\ c \notin subscribed \cup pending \cup joined
        /\ task[<<"listen", c>>] = Idle
        /\ \A q \in Tasks : c \notin task[q].left /\ task[q].asks # c
    BY DEF NewUnknown, Heard, Steady
  <2>3. <<"listen", c>> \in Tasks \ {t}
    BY <2>2 DEF Tasks, Active
  <2>4. ASSUME NEW q \in Tasks PROVE c \notin task'[q].left /\ task'[q].asks # c
    BY <1>2, <2>1, <2>2
  <2> QED BY <1>2, <1>4, <2>1, <2>2, <2>3, <2>4
<1>9. Joining'
  <2>1. joined' \subseteq bound'
    BY <1>2 DEF Subscribed, Joining, Heard, Steady
  <2>2. ASSUME NEW c \in Kept' \ joined'
        PROVE  \E q \in Tasks : q[1] \in {"channels", "listen"} /\ task'[q].asks = c
    <3>1. c \in Kept \ joined
      BY <1>4 DEF Kept
    <3>2. PICK q \in Tasks : q[1] \in {"channels", "listen"} /\ task[q].asks = c
      BY <3>1 DEF Joining, Heard, Steady
    <3>3. CASE q # t
      BY <1>2, <3>2, <3>3
    <3>4. CASE q = t
      <4>1. c = ch
        BY <3>1, <3>2, <3>4 DEF Kept
      <4> QED BY <1>2, <3>2, <3>4, <4>1 DEF Subscribed
    <3> QED BY <3>3, <3>4
  <2> QED BY <2>1, <2>2 DEF Joining
<1>10. ASSUME Settling' PROVE Hearing'
  <2>1. Settling /\ cur' = cur
    BY <1>2, <1>3, <1>10, SettlingStays DEF Heard, Steady
  <2>2. IsOpen /\ sid = cur /\ sid # 0
    BY <2>1 DEF Settling, IsOpen
  <2>3. OwnLoop /\ Known /\ Announced
    BY <2>1 DEF Heard, Hearing
  <2>4. OwnLoop'
    <3> SUFFICES ASSUME NEW q \in Tasks, q[1] = "channels"
                 PROVE  /\ q # <<"channels", cur>> => task'[q] = Idle
                        /\ task'[q].as = 0 => task'[q].asks \notin joined'
      BY <2>1 DEF OwnLoop
    <3>1. CASE q = t
      BY <1>2, <1>4, <2>3, <3>1 DEF OwnLoop, Active
    <3>2. CASE q # t
      <4>1. q # <<"channels", cur>> \/ t[1] # "channels"
        BY <2>3, <3>2 DEF OwnLoop, Active
      <4>2. task'[q] = task[q]
        BY <1>2, <3>2
      <4>3. CASE t[1] # "channels"
        BY <1>4, <2>3, <4>2, <4>3 DEF OwnLoop
      <4>4. CASE q # <<"channels", cur>>
        BY <1>4, <2>3, <4>2, <4>4 DEF OwnLoop, Idle
      <4> QED BY <4>1, <4>3, <4>4
    <3> QED BY <3>1, <3>2
  <2>5. Known'
    <3> SUFFICES ASSUME NEW c \in Kept, c \notin subscribed'
                 PROVE  \E q \in Tasks : c \in task'[q].left \/ task'[q].asks = c
      BY DEF Known, Ahead, Kept
    <3>1. PICK q \in Tasks : c \in task[q].left \/ task[q].asks = c
      BY <1>2, <2>3 DEF Known, Ahead
    <3>2. CASE q # t
      BY <1>2, <3>1, <3>2
    <3>3. CASE q = t /\ c # ch
      BY <1>2, <3>1, <3>3 DEF Kept
    <3>4. CASE c = ch
      BY <1>2, <2>2, <3>4
    <3> QED BY <3>2, <3>3, <3>4
  <2>6. Announced'
    <3> SUFFICES ASSUME NEW c \in Kept \cap subscribed'
                 PROVE  \/ c \in channels'[cur]
                        \/ c \in joined' /\ c \in task'[<<"channels", cur>>].left
      BY <2>1 DEF Announced, Kept
    <3>1. cur \in Sockets /\ <<"channels", cur>> \in Tasks
      BY <2>2 DEF IsOpen, Heard, Inv, TypeOK, Tasks
    <3>2. task'[<<"channels", cur>>].left = task[<<"channels", cur>>].left
      BY <1>2, <3>1
    <3> QED BY <1>2, <1>4, <2>2, <2>3, <3>1, <3>2 DEF Announced
  <2> QED BY <2>4, <2>5, <2>6 DEF Hearing
<1> QED BY <1>5, <1>6, <1>7, <1>8, <1>9, <1>10 DEF Steady

LEMMA FlushHears ==
    ASSUME Heard, NEW t \in Tasks, FlushNext(t)
    PROVE  Steady' /\ (Settling' => Hearing')
<1>1. task \in [Tasks -> TaskSet]
  BY DEF Heard, Inv, TypeOK, TaskSet
<1>2. PICK ch \in task[t].left : Subscribe(task, t, ch, task[t].left \ {ch})
  BY DEF FlushNext
<1>3. ch \in Channels /\ task[t].left \ {ch} \in SUBSET task[t].left
  BY <1>1, <1>2 DEF TaskSet
<1>4. Active(t) /\ task[t].as = 0 /\ task[t].asks = None
  BY <1>2 DEF FlushNext, Active, Idle, TasksAsk, Heard, Steady
<1>5. page[ch] # "new"
  BY <1>2, <1>3 DEF NewUnknown, Heard, Steady
<1> QED BY <1>2, <1>3, <1>4, <1>5, LoopSubscribes DEF FlushNext

LEMMA AgainHears ==
    ASSUME Heard, NEW t \in Tasks, SubscribeAgain(t)
    PROVE  Steady' /\ (Settling' => Hearing')
<1>1. task \in [Tasks -> TaskSet]
  BY DEF Heard, Inv, TypeOK, TaskSet
<1>2. task[t].asks \in Channels /\ task[t].left \in SUBSET task[t].left
  BY <1>1 DEF SubscribeAgain, TaskSet
<1>3. Active(t) /\ task[t].as = 0 /\ t[1] = "channels"
  BY DEF SubscribeAgain, Active, Idle, TasksAsk, Heard, Steady
<1>4. page[task[t].asks] # "new"
  BY <1>2 DEF NewUnknown, Heard, Steady
<1>5. CASE task[t].asks \notin joined
  <2>1. Subscribe(task, t, task[t].asks, task[t].left)
    BY <1>5 DEF SubscribeAgain
  <2> QED BY <1>2, <1>3, <1>4, <2>1, LoopSubscribes DEF SubscribeAgain
<1>6. CASE task[t].asks \in joined
  <2>1. /\ task' = [task EXCEPT ![t].asks = None]
        /\ UNCHANGED <<hubVars, link, cur, pending, subscribed, joined, bound>>
        /\ UNCHANGED <<greeted, sid, page, timer, drops, late>>
    BY <1>6 DEF SubscribeAgain
  <2>2. /\ \A q \in Tasks \ {t} : task'[q] = task[q]
        /\ task'[t].left = task[t].left /\ task'[t].asks = None /\ task'[t].as = 0
    BY <1>1, <1>3, <2>1 DEF TaskSet
  <2>3. OpenClients'
    BY <2>1 DEF OpenClients, Heard, Steady, hubVars
  <2>4. TasksAsk'
    BY <1>3, <2>1, <2>2 DEF TasksAsk, Heard, Steady
  <2>5. TimerDue'
    BY <1>3, <2>1, <2>2 DEF TimerDue, Heard, Steady, Tasks
  <2>6. NewUnknown'
    BY <1>3, <2>1, <2>2, NoneAssumption DEF NewUnknown, Heard, Steady, Tasks
  <2>7. Joining'
    BY <1>6, <2>1, <2>2 DEF Joining, Kept, Heard, Steady
  <2>8. ~Settling'
    <3> SUFFICES ASSUME Settling' PROVE FALSE
      OBVIOUS
    <3>1. Settling
      BY <1>3, <2>1, <2>2, SettlingStays DEF Heard, Steady
    <3> QED BY <1>3, <1>6, <3>1 DEF Heard, Hearing, OwnLoop
  <2> QED BY <2>3, <2>4, <2>5, <2>6, <2>7, <2>8 DEF Steady
<1> QED BY <1>5, <1>6

LEMMA AuthorizedHears ==
    ASSUME Heard, NEW t \in Tasks, Authorized(t)
    PROVE  Steady' /\ (Settling' => Hearing')
<1> DEFINE ch == task[t].asks
<1> USE NoneAssumption
<1>1. task \in [Tasks -> TaskSet]
  BY DEF Heard, Inv, TypeOK, TaskSet
<1>2. /\ ch \in Channels
      /\ Announce(ch, task[t].as) /\ Subscribed(t, ch)
      /\ UNCHANGED <<link, greeted, cur, sid, pending, page, timer, drops>>
      /\ late' = (late \/ task[t].as # cur)
  BY <1>1 DEF Authorized, TaskSet
<1>3. /\ \A q \in Tasks \ {t} : task'[q] = task[q]
      /\ task'[t].left = task[t].left /\ task'[t].asks = None /\ task'[t].as = 0
  BY <1>1 DEF Authorized, TaskSet
<1>4. page[ch] # "new"
  BY <1>2 DEF NewUnknown, Heard, Steady
<1>5. Active(t)
  BY DEF Active, Idle, Authorized
<1> HIDE DEF ch
<1>6. /\ clients' = clients
      /\ subscribed' = subscribed \cup {ch}
      /\ \A s \in Sockets : channels[s] \subseteq channels'[s]
      /\ IsOpen /\ task[t].as = cur => ch \in channels'[cur]
  BY <1>2, Announces DEF Heard, Steady
<1>7. /\ joined \subseteq joined' /\ joined' \subseteq joined \cup {ch} /\ joined' \subseteq Channels
      /\ t[1] \in {"channels", "listen"} => ch \in joined'
      /\ joined' \subseteq bound'
  BY <1>2 DEF Subscribed, Heard, Steady, Joining, Inv, TypeOK
<1>8. OpenClients'
  BY <1>2, <1>6 DEF OpenClients, Heard, Steady
<1>9. TasksAsk'
  <2>1. t[1] = "channels" \/ task[t].as # 0
    BY DEF Authorized
  <2> QED BY <1>2, <1>3 DEF TasksAsk, Heard, Steady
<1>10. TimerDue'
  BY <1>2, <1>3, <1>5 DEF TimerDue, Heard, Steady, Active, Tasks
<1>11. NewUnknown'
  <2> SUFFICES ASSUME NEW c \in Channels, page[c] = "new"
               PROVE  /\ c \notin subscribed' \cup pending' \cup joined'
                      /\ task'[<<"listen", c>>] = Idle
                      /\ \A q \in Tasks : c \notin task'[q].left /\ task'[q].asks # c
    BY <1>2 DEF NewUnknown
  <2>1. c # ch /\ c # None
    BY <1>4
  <2>2. /\ c \notin subscribed \cup pending \cup joined
        /\ task[<<"listen", c>>] = Idle
        /\ \A q \in Tasks : c \notin task[q].left /\ task[q].asks # c
    BY DEF NewUnknown, Heard, Steady
  <2>3. <<"listen", c>> \in Tasks \ {t}
    BY <1>5, <2>2 DEF Tasks, Active
  <2>4. ASSUME NEW q \in Tasks PROVE c \notin task'[q].left /\ task'[q].asks # c
    BY <1>3, <2>1, <2>2
  <2> QED BY <1>2, <1>3, <1>6, <1>7, <2>1, <2>2, <2>3, <2>4
<1>12. Joining'
  <2>1. ASSUME NEW c \in Kept' \ joined'
        PROVE  \E q \in Tasks : q[1] \in {"channels", "listen"} /\ task'[q].asks = c
    <3>1. c \in Kept \ joined
      BY <1>2, <1>7 DEF Kept
    <3>2. PICK q \in Tasks : q[1] \in {"channels", "listen"} /\ task[q].asks = c
      BY <3>1 DEF Joining, Heard, Steady
    <3>3. q # t
      BY <1>7, <2>1, <3>2 DEF ch
    <3> QED BY <1>3, <3>2, <3>3
  <2> QED BY <1>7, <2>1 DEF Joining
<1>13. ASSUME Settling' PROVE Hearing'
  <2>1. task[t].as = cur /\ ~late /\ IsOpen /\ sid = cur /\ cur' = cur
    BY <1>2, <1>13 DEF Settling, Overtaken, IsOpen
  <2>2. \A q \in Tasks : task[q].as \in {0, cur}
    BY <1>3, <1>13, <2>1 DEF Settling, Overtaken
  <2>3. OwnLoop /\ Known /\ Announced
    BY <2>1, <2>2 DEF Heard, Hearing, Settling, Overtaken
  <2>4. OwnLoop'
    <3> SUFFICES ASSUME NEW q \in Tasks, q[1] = "channels"
                 PROVE  /\ q # <<"channels", cur>> => task'[q] = Idle
                        /\ task'[q].as = 0 => task'[q].asks \notin joined'
      BY <2>1 DEF OwnLoop
    <3>1. CASE q = t
      BY <1>3, <1>5, <1>7, <2>3, <3>1 DEF OwnLoop, Active
    <3>2. CASE q # t
      <4>1. task'[q] = task[q]
        BY <1>3, <3>2
      <4>2. task[q].as = 0 => task[q].asks = None
        BY DEF Authorized, Quiet, Active, Idle
      <4> QED BY <1>7, <2>3, <4>1, <4>2 DEF OwnLoop
    <3> QED BY <3>1, <3>2
  <2>5. Known'
    <3> SUFFICES ASSUME NEW c \in Kept, c \notin subscribed'
                 PROVE  \E q \in Tasks : c \in task'[q].left \/ task'[q].asks = c
      BY <1>2 DEF Known, Ahead, Kept
    <3>1. PICK q \in Tasks : c \in task[q].left \/ task[q].asks = c
      BY <1>6, <2>3 DEF Known, Ahead
    <3>2. q = t => task[q].asks # c
      BY <1>6 DEF ch
    <3> QED BY <1>3, <3>1, <3>2
  <2>6. Announced'
    <3> SUFFICES ASSUME NEW c \in Kept \cap subscribed'
                 PROVE  \/ c \in channels'[cur]
                        \/ c \in joined' /\ c \in task'[<<"channels", cur>>].left
      BY <1>2, <2>1 DEF Announced, Kept
    <3>1. cur \in Sockets /\ <<"channels", cur>> \in Tasks
      BY <2>1 DEF IsOpen, Heard, Inv, TypeOK, Tasks
    <3>2. task'[<<"channels", cur>>].left = task[<<"channels", cur>>].left
      BY <1>3, <3>1
    <3> QED BY <1>6, <1>7, <2>1, <2>3, <3>1, <3>2 DEF Announced
  <2> QED BY <2>4, <2>5, <2>6 DEF Hearing
<1> QED BY <1>8, <1>9, <1>10, <1>11, <1>12, <1>13 DEF Steady

LEMMA ResubscribeHears ==
    ASSUME Heard, NEW t \in Tasks, Resubscribe(t)
    PROVE  Steady' /\ (Settling' => Hearing')
<1> USE NoneAssumption
<1>1. task \in [Tasks -> TaskSet]
  BY DEF Heard, Inv, TypeOK, TaskSet
<1>2. PICK ch \in task[t].left :
        /\ task' = [task EXCEPT ![t] = [left |-> @.left \ {ch}, asks |-> ch, as |-> 0]]
        /\ joined' = joined \ {ch}
        /\ Forgets(ch)
  BY DEF Resubscribe, Forgets
<1>3. ch \in Channels /\ task[t].asks = None /\ t[1] = "channels"
  BY <1>1, <1>2 DEF Resubscribe, TaskSet
<1>4. UNCHANGED <<link, greeted, cur, sid, pending, page, timer, drops, late>>
  BY DEF Resubscribe
<1>5. /\ \A q \in Tasks \ {t} : task'[q] = task[q]
      /\ task'[t].left = task[t].left \ {ch} /\ task'[t].asks = ch /\ task'[t].as = 0
  BY <1>1, <1>2
<1>6. /\ clients' = clients
      /\ subscribed \ {ch} \subseteq subscribed' /\ subscribed' \subseteq subscribed
      /\ bound \ {ch} \subseteq bound'
      /\ ch \in joined => ch \notin subscribed'
      /\ \A s \in Sockets : channels[s] \ {ch} \subseteq channels'[s]
      /\ ch \notin joined => channels' = channels
  BY <1>2, <1>3, Forgetting DEF Heard
<1>7. page[ch] # "new" /\ task[t].as = 0 /\ Active(t)
  <2>1. page[ch] # "new"
    BY <1>2, <1>3 DEF NewUnknown, Heard, Steady
  <2>2. task[t].as = 0
    BY <1>3 DEF TasksAsk, Heard, Steady
  <2>3. task[t] # Idle
    BY <1>2 DEF Idle
  <2> QED BY <2>1, <2>2, <2>3 DEF Active
<1>8. OpenClients'
  BY <1>4, <1>6 DEF OpenClients, Heard, Steady
<1>9. TasksAsk'
  BY <1>3, <1>4, <1>5 DEF TasksAsk, Heard, Steady
<1>10. TimerDue'
  BY <1>4, <1>5, <1>7 DEF TimerDue, Heard, Steady, Active, Tasks
<1>11. NewUnknown'
  <2> SUFFICES ASSUME NEW c \in Channels, page[c] = "new"
               PROVE  /\ c \notin subscribed' \cup pending' \cup joined'
                      /\ task'[<<"listen", c>>] = Idle
                      /\ \A q \in Tasks : c \notin task'[q].left /\ task'[q].asks # c
    BY <1>4 DEF NewUnknown
  <2>1. /\ c \notin subscribed \cup pending \cup joined
        /\ task[<<"listen", c>>] = Idle
        /\ \A q \in Tasks : c \notin task[q].left /\ task[q].asks # c
    BY DEF NewUnknown, Heard, Steady
  <2>2. <<"listen", c>> \in Tasks \ {t}
    BY <1>7, <2>1 DEF Tasks, Active
  <2>3. ASSUME NEW q \in Tasks PROVE c \notin task'[q].left /\ task'[q].asks # c
    BY <1>5, <1>7, <2>1
  <2> QED BY <1>2, <1>4, <1>5, <1>6, <2>1, <2>2, <2>3
<1>12. Joining'
  <2>1. joined' \subseteq bound'
    BY <1>2, <1>6 DEF Joining, Heard, Steady
  <2>2. ASSUME NEW c \in Kept' \ joined'
        PROVE  \E q \in Tasks : q[1] \in {"channels", "listen"} /\ task'[q].asks = c
    <3>1. CASE c = ch
      BY <1>3, <1>5, <3>1
    <3>2. CASE c # ch
      <4>1. c \in Kept \ joined
        BY <1>2, <1>4, <3>2 DEF Kept
      <4>2. PICK q \in Tasks : q[1] \in {"channels", "listen"} /\ task[q].asks = c
        BY <4>1 DEF Joining, Heard, Steady
      <4>3. q # t
        BY <1>3, <4>1, <4>2 DEF Kept
      <4> QED BY <1>5, <4>2, <4>3
    <3> QED BY <3>1, <3>2
  <2> QED BY <2>1, <2>2 DEF Joining
<1>13. ASSUME Settling' PROVE Hearing'
  <2>1. Settling /\ cur' = cur
    BY <1>4, <1>5, <1>7, <1>13, SettlingStays DEF Heard, Steady
  <2>2. OwnLoop /\ Known /\ Announced
    BY <2>1 DEF Heard, Hearing
  <2>3. t = <<"channels", cur>>
    BY <1>3, <1>7, <2>2 DEF OwnLoop, Active
  <2>4. OwnLoop'
    BY <1>2, <1>5, <2>1, <2>2, <2>3 DEF OwnLoop
  <2>5. Known'
    <3> SUFFICES ASSUME NEW c \in Kept, c \notin subscribed'
                 PROVE  \E q \in Tasks : c \in task'[q].left \/ task'[q].asks = c
      BY <1>4 DEF Known, Ahead, Kept
    <3>1. CASE c = ch
      BY <1>5, <3>1
    <3>2. CASE c # ch
      <4>1. PICK q \in Tasks : c \in task[q].left \/ task[q].asks = c
        BY <1>6, <2>2, <3>2 DEF Known, Ahead
      <4> QED BY <1>3, <1>5, <3>2, <4>1 DEF Kept
    <3> QED BY <3>1, <3>2
  <2>6. Announced'
    <3> SUFFICES ASSUME NEW c \in Kept \cap subscribed'
                 PROVE  \/ c \in channels'[cur]
                        \/ c \in joined' /\ c \in task'[<<"channels", cur>>].left
      BY <1>4, <2>1 DEF Announced, Kept
    <3>1. cur \in Sockets
      BY <2>1 DEF Settling, IsOpen, Heard, Inv, TypeOK
    <3>2. CASE c = ch
      BY <1>6, <2>2, <3>2 DEF Announced
    <3>3. CASE c # ch
      BY <1>2, <1>5, <1>6, <2>2, <2>3, <3>1, <3>3 DEF Announced
    <3> QED BY <3>2, <3>3
  <2> QED BY <2>4, <2>5, <2>6 DEF Hearing
<1> QED BY <1>8, <1>9, <1>10, <1>11, <1>12, <1>13 DEF Steady

LEMMA ListenHears ==
    ASSUME Heard, NEW ch \in Channels, Listen(ch)
    PROVE  Steady' /\ (Settling' => Hearing')
<1> DEFINE others == [q \in Tasks |-> IF q[1] = "channels" /\ Active(q)
                                      THEN [task[q] EXCEPT !.left = @ \cup {ch}]
                                      ELSE task[q]]
           t == <<"listen", ch>>
<1> USE NoneAssumption
<1>1. task \in [Tasks -> TaskSet] /\ others \in [Tasks -> TaskSet] /\ t \in Tasks
  BY DEF Heard, Inv, TypeOK, TaskSet, Tasks
<1>2. Subscribe(others, t, ch, {})
  BY DEF Listen
<1>3. /\ page[ch] = "new" /\ page' = [page EXCEPT ![ch] = "kept"]
      /\ UNCHANGED <<greeted, sid, timer, drops, late>>
      /\ Connect
  BY DEF Listen, Subscribe
<1>4. \A q \in Tasks : /\ task[q].left \subseteq others[q].left
                       /\ others[q].left \subseteq task[q].left \cup {ch}
                       /\ others[q].asks = task[q].asks /\ others[q].as = task[q].as
                       /\ q[1] # "channels" \/ task[q] = Idle => others[q] = task[q]
  BY <1>1 DEF TaskSet, Active
<1> HIDE DEF others
<1>5. /\ clients' = clients
      /\ \A s \in Sockets : channels[s] \subseteq channels'[s]
      /\ subscribed \subseteq subscribed' /\ subscribed' \subseteq subscribed \cup {ch}
      /\ pending' \subseteq pending \cup {ch}
      /\ \A q \in Tasks \ {t} : task'[q] = others[q]
      /\ task'[t].left = {}
      /\ \/ /\ task'[t].asks = ch /\ task'[t].as = sid /\ sid # 0
            /\ subscribed' = subscribed
            /\ joined' = joined /\ bound' = bound
         \/ /\ task'[t].asks = None /\ task'[t].as = 0
            /\ Subscribed(t, ch)
            /\ sid # 0 => ch \in subscribed'
      /\ IsOpen /\ sid = cur /\ ch \in subscribed' \ subscribed => ch \in channels'[cur]
  BY <1>1, <1>2, Subscribing DEF Heard, Steady
<1>6. /\ ch \notin subscribed \cup pending \cup joined
      /\ task[t] = Idle
      /\ \A q \in Tasks : ch \notin task[q].left /\ task[q].asks # ch
  BY <1>3 DEF NewUnknown, Heard, Steady
<1>7. /\ joined \subseteq joined' /\ joined' \subseteq joined \cup {ch} /\ joined' \subseteq Channels
      /\ joined' \subseteq bound'
      /\ task'[t].asks = ch \/ ch \in joined'
  BY <1>5 DEF Subscribed, Joining, Heard, Steady, Inv, TypeOK
<1>8. /\ Kept' = Kept \cup {ch}
      /\ \A c \in Channels : page'[c] = "new" => page[c] = "new" /\ c # ch
  BY <1>3 DEF Kept, Heard, Inv, TypeOK
<1>9. \A q \in Tasks \ {t} : /\ task[q].left \subseteq task'[q].left
                             /\ task'[q].left \subseteq task[q].left \cup {ch}
                             /\ task'[q].asks = task[q].asks /\ task'[q].as = task[q].as
                             /\ q[1] # "channels" \/ task[q] = Idle => task'[q] = task[q]
  BY <1>4, <1>5
<1>10. OpenClients'
  BY <1>3, <1>5, Connecting DEF OpenClients, Heard, Steady
<1>11. TasksAsk'
  <2>1. sid \in greeted \cup {0}
    BY DEF Heard, Inv, TypeOK
  <2>2. ASSUME NEW q \in Tasks
        PROVE  /\ task'[q].as \in greeted \cup {0}
               /\ task'[q].as # 0 => task'[q].asks # None
               /\ task'[q].asks # None /\ task'[q].as = 0 => q[1] = "channels"
    <3>1. CASE q = t
      BY <1>5, <2>1, <3>1
    <3>2. CASE q # t
      BY <1>9, <3>2 DEF TasksAsk, Heard, Steady
    <3> QED BY <3>1, <3>2
  <2> QED BY <1>3, <2>2 DEF TasksAsk
<1>12. TimerDue'
  BY <1>3, <1>9 DEF TimerDue, Heard, Steady, Tasks
<1>13. NewUnknown'
  <2> SUFFICES ASSUME NEW c \in Channels, page'[c] = "new"
               PROVE  /\ c \notin subscribed' \cup pending' \cup joined'
                      /\ task'[<<"listen", c>>] = Idle
                      /\ \A q \in Tasks : c \notin task'[q].left /\ task'[q].asks # c
    BY DEF NewUnknown
  <2>1. c # ch /\ c # None /\ page[c] = "new"
    BY <1>8
  <2>2. /\ c \notin subscribed \cup pending \cup joined
        /\ task[<<"listen", c>>] = Idle
        /\ \A q \in Tasks : c \notin task[q].left /\ task[q].asks # c
    BY <2>1 DEF NewUnknown, Heard, Steady
  <2>3. <<"listen", c>> \in Tasks \ {t}
    BY <2>1 DEF Tasks
  <2>4. ASSUME NEW q \in Tasks PROVE c \notin task'[q].left /\ task'[q].asks # c
    <3>1. CASE q = t
      BY <1>5, <2>1, <3>1
    <3>2. CASE q # t
      BY <1>9, <2>1, <2>2, <3>2
    <3> QED BY <3>1, <3>2
  <2> QED BY <1>5, <1>7, <1>9, <2>1, <2>2, <2>3, <2>4
<1>14. Joining'
  <2>1. ASSUME NEW c \in Kept' \ joined'
        PROVE  \E q \in Tasks : q[1] \in {"channels", "listen"} /\ task'[q].asks = c
    <3>1. CASE c = ch
      BY <1>1, <1>7, <2>1, <3>1
    <3>2. CASE c # ch
      <4>1. c \in Kept \ joined
        BY <1>7, <1>8, <2>1, <3>2
      <4>2. PICK q \in Tasks : q[1] \in {"channels", "listen"} /\ task[q].asks = c
        BY <4>1 DEF Joining, Heard, Steady
      <4>3. q # t
        BY <1>6, <4>1, <4>2 DEF Idle, Kept
      <4> QED BY <1>9, <4>2, <4>3
    <3> QED BY <3>1, <3>2
  <2> QED BY <1>7, <2>1 DEF Joining
<1>15. ASSUME Settling' PROVE Hearing'
  <2>1. Settling /\ cur' = cur
    <3>1. \A q \in Tasks : task[q].as = 0 \/ task'[q].as = task[q].as
      BY <1>6, <1>9 DEF Idle
    <3> QED BY <1>3, <1>15, <3>1, SettlingStays DEF Heard, Steady
  <2>2. IsOpen /\ sid = cur /\ sid # 0
    BY <2>1 DEF Settling, IsOpen
  <2>3. OwnLoop /\ Known /\ Announced
    BY <2>1 DEF Heard, Hearing
  <2>4. OwnLoop'
    <3> SUFFICES ASSUME NEW q \in Tasks, q[1] = "channels"
                 PROVE  /\ q # <<"channels", cur>> => task'[q] = Idle
                        /\ task'[q].as = 0 => task'[q].asks \notin joined'
      BY <2>1 DEF OwnLoop
    <3>1. q # t
      OBVIOUS
    <3> QED BY <1>6, <1>7, <1>9, <2>3, <3>1 DEF OwnLoop
  <2>5. Known'
    <3> SUFFICES ASSUME NEW c \in Kept', c \notin subscribed'
                 PROVE  \E q \in Tasks : c \in task'[q].left \/ task'[q].asks = c
      BY DEF Known, Ahead
    <3>1. CASE c = ch
      BY <1>1, <1>5, <2>2, <3>1
    <3>2. CASE c # ch
      <4>1. c \in Kept
        BY <1>8, <3>2
      <4>2. PICK q \in Tasks : c \in task[q].left \/ task[q].asks = c
        BY <1>5, <2>3, <4>1 DEF Known, Ahead
      <4>3. q # t
        BY <1>6, <4>1, <4>2 DEF Idle, Kept
      <4> QED BY <1>9, <4>2, <4>3
    <3> QED BY <3>1, <3>2
  <2>6. Announced'
    <3> SUFFICES ASSUME NEW c \in Kept' \cap subscribed'
                 PROVE  \/ c \in channels'[cur]
                        \/ c \in joined' /\ c \in task'[<<"channels", cur>>].left
      BY <2>1 DEF Announced
    <3>1. cur \in Sockets /\ <<"channels", cur>> \in Tasks \ {t}
      BY <2>2 DEF IsOpen, Heard, Inv, TypeOK, Tasks
    <3>2. CASE c = ch
      BY <1>5, <1>6, <2>2, <3>2
    <3>3. CASE c # ch
      BY <1>5, <1>7, <1>8, <1>9, <2>3, <3>1, <3>3 DEF Announced
    <3> QED BY <3>2, <3>3
  <2> QED BY <2>4, <2>5, <2>6 DEF Hearing
<1> QED BY <1>10, <1>11, <1>12, <1>13, <1>14, <1>15 DEF Steady

LEMMA LeaveHears ==
    ASSUME Heard, NEW ch \in Channels, Leave(ch)
    PROVE  Steady' /\ (Settling' => Hearing')
<1> USE NoneAssumption
<1>1. task \in [Tasks -> TaskSet]
  BY DEF Heard, Inv, TypeOK, TaskSet
<1>2. /\ page' = [page EXCEPT ![ch] = "left"]
      /\ joined' = joined \ {ch}
      /\ Forgets(ch)
      /\ task' = [q \in Tasks |-> IF q[1] = "channels" THEN [task[q] EXCEPT !.left = @ \ {ch}]
                                  ELSE task[q]]
      /\ UNCHANGED <<link, greeted, cur, sid, pending, timer, drops, late>>
  BY DEF Leave, Forgets
<1>3. \A q \in Tasks : /\ task'[q].left \subseteq task[q].left
                       /\ task[q].left \ {ch} \subseteq task'[q].left
                       /\ task'[q].asks = task[q].asks /\ task'[q].as = task[q].as
                       /\ q[1] # "channels" => task'[q] = task[q]
                       /\ task[q] = Idle => task'[q] = Idle
  <2> SUFFICES ASSUME NEW q \in Tasks, q[1] = "channels"
               PROVE  /\ task'[q].left = task[q].left \ {ch}
                      /\ task'[q].asks = task[q].asks /\ task'[q].as = task[q].as
                      /\ task[q] = Idle => task'[q] = Idle
    BY <1>1, <1>2
  <2>1. task'[q] = [task[q] EXCEPT !.left = @ \ {ch}]
    BY <1>2
  <2>2. /\ task'[q].left = task[q].left \ {ch}
        /\ task'[q].asks = task[q].asks /\ task'[q].as = task[q].as
    BY <1>1, <2>1 DEF TaskSet
  <2>3. ASSUME task[q] = Idle PROVE task'[q] = Idle
    BY <2>1, <2>3 DEF Idle
  <2> QED BY <2>2, <2>3
<1>4. /\ clients' = clients
      /\ subscribed \ {ch} \subseteq subscribed' /\ subscribed' \subseteq subscribed
      /\ bound \ {ch} \subseteq bound'
      /\ \A s \in Sockets : channels[s] \ {ch} \subseteq channels'[s]
  BY <1>2, Forgetting DEF Heard
<1>5. /\ Kept' \subseteq Kept \ {ch}
      /\ \A c \in Channels : page'[c] = "new" => page[c] = "new"
  BY <1>2 DEF Kept, Heard, Inv, TypeOK
<1>6. OpenClients'
  BY <1>2, <1>4 DEF OpenClients, Heard, Steady
<1>7. TasksAsk'
  BY <1>2, <1>3 DEF TasksAsk, Heard, Steady
<1>8. TimerDue'
  BY <1>2, <1>3 DEF TimerDue, Heard, Steady, Tasks
<1>9. NewUnknown'
  BY <1>2, <1>3, <1>4, <1>5 DEF NewUnknown, Heard, Steady, Tasks
<1>10. Joining'
  BY <1>2, <1>3, <1>4, <1>5 DEF Joining, Heard, Steady
<1>11. ASSUME Settling' PROVE Hearing'
  <2>1. Settling /\ cur' = cur
    BY <1>2, <1>3, <1>11, SettlingStays DEF Heard, Steady
  <2>2. OwnLoop /\ Known /\ Announced
    BY <2>1 DEF Heard, Hearing
  <2>3. cur \in Sockets /\ <<"channels", cur>> \in Tasks
    BY <2>1 DEF Settling, IsOpen, Heard, Inv, TypeOK, Tasks
  <2>4. OwnLoop'
    BY <1>2, <1>3, <2>1, <2>2 DEF OwnLoop
  <2>5. Known'
    BY <1>3, <1>4, <1>5, <2>2 DEF Known, Ahead
  <2>6. Announced'
    BY <1>2, <1>3, <1>4, <1>5, <2>1, <2>2, <2>3 DEF Announced
  <2> QED BY <2>4, <2>5, <2>6 DEF Hearing
<1> QED BY <1>6, <1>7, <1>8, <1>9, <1>10, <1>11 DEF Steady

\* `connected` of the current socket: whatever earlier sockets have begun is
\* over, and every channel that is kept lies ahead.
LEMMA ConnectedHears ==
    ASSUME Heard, NEW s \in Sockets, Connected(s)
    PROVE  Steady' /\ (Settling' => Hearing')
<1> USE NoneAssumption
<1>1. task \in [Tasks -> TaskSet]
  BY DEF Heard, Inv, TypeOK, TaskSet
<1>2. /\ s \notin greeted /\ greeted' = greeted \cup {s} /\ sid' = s /\ pending' = {}
      /\ UNCHANGED <<hubVars, link, cur, subscribed, bound, page, joined, timer, drops, late>>
      /\ Kept' = Kept
  BY DEF Connected, Kept
<1>3. \A q \in Tasks :
        /\ task'[q].asks = task[q].asks /\ task'[q].as = task[q].as
        /\ task'[q].left \subseteq task[q].left \cup pending \cup Kept
        /\ q \notin {<<"flush", s>>, <<"channels", s>>} => task'[q] = task[q]
  <2> DEFINE flushed == [task EXCEPT ![<<"flush", s>>].left = pending]
  <2>1. task' = [flushed EXCEPT ![<<"channels", s>>].left = Kept]
    BY DEF Connected
  <2>2. flushed \in [Tasks -> TaskSet]
    BY <1>1, LeftChanges DEF Heard, Inv, TypeOK
  <2>3. \A q \in Tasks : /\ flushed[q].asks = task[q].asks /\ flushed[q].as = task[q].as
                         /\ flushed[q].left \subseteq task[q].left \cup pending
                         /\ q # <<"flush", s>> => flushed[q] = task[q]
    BY <1>1 DEF TaskSet
  <2> HIDE DEF flushed
  <2>4. \A q \in Tasks : /\ task'[q].asks = flushed[q].asks /\ task'[q].as = flushed[q].as
                         /\ task'[q].left \subseteq flushed[q].left \cup Kept
                         /\ q # <<"channels", s>> => task'[q] = flushed[q]
    BY <2>1, <2>2 DEF TaskSet
  <2> QED BY <2>3, <2>4
<1>4. task'[<<"channels", s>>].left = Kept
  <2> DEFINE flushed == [task EXCEPT ![<<"flush", s>>].left = pending]
  <2>1. task' = [flushed EXCEPT ![<<"channels", s>>].left = Kept]
    BY DEF Connected
  <2>2. flushed \in [Tasks -> TaskSet] /\ <<"channels", s>> \in Tasks
    BY <1>1, LeftChanges DEF Heard, Inv, TypeOK, Tasks
  <2> HIDE DEF flushed
  <2> QED BY <2>1, <2>2 DEF TaskSet
<1>5. OpenClients'
  BY <1>2 DEF OpenClients, Heard, Steady, hubVars
<1>6. TasksAsk'
  BY <1>2, <1>3 DEF TasksAsk, Heard, Steady
<1>7. TimerDue'
  BY <1>2, <1>3 DEF TimerDue, Heard, Steady, Tasks
<1>8. NewUnknown'
  BY <1>2, <1>3 DEF NewUnknown, Kept, Heard, Steady, Tasks
<1>9. Joining'
  BY <1>2, <1>3 DEF Joining, Heard, Steady
<1>10. ASSUME Settling' PROVE Hearing'
  <2>1. s = cur /\ cur' = cur
    BY <1>2, <1>10 DEF Settling
  <2>2. ASSUME NEW q \in Tasks PROVE task[q] = Idle
    <3>1. task[q].as \in {0, cur}
      BY <1>2, <1>3, <1>10 DEF Settling, Overtaken
    <3>2. task[q].as = 0
      BY <1>2, <2>1, <3>1 DEF TasksAsk, Heard, Steady
    <3> QED BY <3>2 DEF Connected, Quiet, Active
  <2>3. \A q \in Tasks : task[q].asks = None
    BY <2>2 DEF Idle
  <2>4. Kept \subseteq joined /\ None \notin joined
    BY <2>3 DEF Joining, Kept, Heard, Steady, Inv, TypeOK
  <2>5. OwnLoop'
    BY <1>2, <1>3, <2>1, <2>2, <2>3, <2>4 DEF OwnLoop
  <2>6. Known' /\ Announced'
    BY <1>2, <1>4, <2>1, <2>4 DEF Known, Ahead, Announced, Tasks
  <2> QED BY <2>5, <2>6 DEF Hearing
<1> QED BY <1>5, <1>6, <1>7, <1>8, <1>9, <1>10 DEF Steady

LEMMA SocketsHear ==
    ASSUME Heard, NEW s \in Sockets, Open(s) \/ Drop(s) \/ HubCloses(s)
    PROVE  Steady' /\ (Settling' => Hearing')
<1>1. /\ UNCHANGED <<greeted, cur, subscribed, pending, bound, page, joined, task, late>>
      /\ Kept' = Kept
  BY DEF Open, Drop, HubCloses, echoVars, Kept
<1>2. OpenClients'
  <2>1. CASE Open(s)
    BY <2>1 DEF Open, Upgrade, OpenClients, Heard, Steady, Inv, TypeOK
  <2>2. CASE Drop(s)
    BY <2>2 DEF Drop, hubVars, OpenClients, Heard, Steady, Inv, TypeOK
  <2>3. CASE HubCloses(s)
    BY <2>3 DEF HubCloses, RemoveClient, echoVars, OpenClients, Heard, Steady, Inv, TypeOK
  <2> QED BY <2>1, <2>2, <2>3
<1>3. TimerDue'
  <2>1. CASE Drop(s)
    BY <1>1, <2>1 DEF Drop, TimerDue, Heard, Steady, Inv, TypeOK
  <2>2. CASE ~Drop(s)
    BY <1>1, <2>2 DEF Open, HubCloses, echoVars, TimerDue, Heard, Steady
  <2> QED BY <2>1, <2>2
<1>4. TasksAsk' /\ NewUnknown' /\ Joining'
  BY <1>1 DEF TasksAsk, NewUnknown, Joining, Heard, Steady
<1>5. ASSUME Settling' PROVE Hearing'
  <2>1. ~Drop(s)
    BY <1>1, <1>5 DEF Drop, Settling, IsOpen
  <2>2. sid' = sid /\ cur' = cur /\ cur # 0 /\ sid = cur
    BY <1>1, <1>5, <2>1 DEF Open, HubCloses, echoVars, Settling, IsOpen
  <2>3. link[cur] = "open"
    BY <2>2 DEF Heard, Inv, TypeOK
  <2>4. Settling
    BY <1>1, <1>5, <2>2, <2>3 DEF Settling, IsOpen, Overtaken
  <2>5. channels'[cur] = channels[cur]
    <3>1. CASE Open(s)
      BY <3>1 DEF Open, Upgrade
    <3>2. CASE HubCloses(s)
      BY <2>3, <3>2 DEF HubCloses, RemoveClient, Heard, Inv, HubInv, HubTypeOK
    <3> QED BY <2>1, <3>1, <3>2
  <2> QED BY <1>1, <2>4, <2>5 DEF Heard, Hearing, OwnLoop, Known, Ahead, Announced
<1> QED BY <1>2, <1>3, <1>4, <1>5 DEF Steady

\* The reconnect timer forgets what was subscribed and has it ahead again.
LEMMA ReconnectHears ==
    ASSUME Heard, Reconnect
    PROVE  Steady' /\ (Settling' => Hearing')
<1> DEFINE t == <<"all", drops>>
<1>1. task \in [Tasks -> TaskSet]
  BY DEF Heard, Inv, TypeOK, TaskSet
<1>2. t \in Tasks /\ drops \in 1 .. MaxDrops /\ task[t] = Idle
  BY DEF Reconnect, TimerDue, Heard, Steady, Inv, TypeOK, Tasks
<1>3. /\ Connect /\ timer' = FALSE /\ subscribed' = {}
      /\ task' = [task EXCEPT ![t].left = subscribed]
      /\ UNCHANGED <<hubVars, greeted, sid, pending, bound, page, joined, drops, late>>
      /\ Kept' = Kept
  BY DEF Reconnect, Kept
<1>4. /\ \A q \in Tasks \ {t} : task'[q] = task[q]
      /\ task'[t].left = subscribed
      /\ task'[t].asks = task[t].asks /\ task'[t].as = task[t].as
  BY <1>1, <1>2, <1>3 DEF TaskSet
<1>5. \A q \in Tasks : task'[q].asks = task[q].asks /\ task'[q].as = task[q].as
  BY <1>4
<1>6. OpenClients'
  BY <1>3, Connecting DEF OpenClients, Heard, Steady, hubVars
<1>7. TasksAsk'
  BY <1>3, <1>5 DEF TasksAsk, Heard, Steady
<1>8. TimerDue'
  BY <1>2, <1>3, <1>4 DEF TimerDue, Heard, Steady, Tasks
<1>9. NewUnknown'
  BY <1>3, <1>4, <1>5 DEF NewUnknown, Heard, Steady, Tasks
<1>10. Joining'
  BY <1>3, <1>5 DEF Joining, Heard, Steady
<1>11. ASSUME Settling' PROVE Hearing'
  <2>1. Settling /\ cur' = cur
    BY <1>3, <1>5, <1>11, SettlingStays DEF Heard, Steady
  <2>2. OwnLoop /\ Known
    BY <2>1 DEF Heard, Hearing
  <2>3. OwnLoop'
    BY <1>3, <1>4, <1>5, <2>1, <2>2 DEF OwnLoop
  <2>4. Known'
    <3> SUFFICES ASSUME NEW c \in Kept
                 PROVE  \E q \in Tasks : c \in task'[q].left \/ task'[q].asks = c
      BY <1>3 DEF Known, Ahead
    <3>1. CASE c \in subscribed
      BY <1>2, <1>4, <3>1
    <3>2. CASE c \notin subscribed
      <4>1. PICK q \in Tasks : c \in task[q].left \/ task[q].asks = c
        BY <2>2, <3>2 DEF Known, Ahead
      <4>2. q # t
        BY <1>2, <4>1, NoneAssumption DEF Idle, Kept
      <4> QED BY <1>4, <4>1, <4>2
    <3> QED BY <3>1, <3>2
  <2>5. Announced'
    BY <1>3 DEF Announced
  <2> QED BY <2>3, <2>4, <2>5 DEF Hearing
<1> QED BY <1>6, <1>7, <1>8, <1>9, <1>10, <1>11 DEF Steady

----------------------------------------------------------------------------
LEMMA InitHeard == Init => Heard
<1> SUFFICES ASSUME Init PROVE Heard
  OBVIOUS
<1>1. OpenClients /\ TasksAsk /\ TimerDue /\ Joining
  BY DEF Init, OpenClients, TasksAsk, TimerDue, Joining, Kept, Idle, Tasks
<1>2. NewUnknown
  BY NoneAssumption DEF Init, NewUnknown, Idle, Tasks
<1>3. ~Settling
  BY DEF Init, Settling, IsOpen
<1> QED BY <1>1, <1>2, <1>3, InitInv DEF Heard, Steady

LEMMA HeardSteps == Heard /\ [Next]_vars => Heard'
<1> SUFFICES ASSUME Heard, [Next]_vars PROVE Steady' /\ (Settling' => Hearing')
  BY InvSteps DEF Heard, Hearing
<1>1. CASE UNCHANGED vars
  BY <1>1 DEF vars, hubVars, echoVars, Heard, Steady, Hearing, OpenClients, TasksAsk, TimerDue,
              NewUnknown, Joining, Settling, IsOpen, Overtaken, OwnLoop, Known, Ahead,
              Announced, Kept
<1>2. CASE Next
  <2>1. ASSUME NEW ch \in Channels, Listen(ch) \/ Leave(ch)
        PROVE  Steady' /\ (Settling' => Hearing')
    BY <2>1, ListenHears, LeaveHears
  <2>2. ASSUME NEW s \in Sockets, Open(s) \/ Connected(s) \/ Drop(s) \/ HubCloses(s)
        PROVE  Steady' /\ (Settling' => Hearing')
    BY <2>2, ConnectedHears, SocketsHear
  <2>3. ASSUME NEW t \in Tasks,
               FlushNext(t) \/ Resubscribe(t) \/ SubscribeAgain(t) \/ Authorized(t)
        PROVE  Steady' /\ (Settling' => Hearing')
    BY <2>3, FlushHears, ResubscribeHears, AgainHears, AuthorizedHears
  <2> QED BY <1>2, <2>1, <2>2, <2>3, ReconnectHears DEF Next
<1> QED BY <1>1, <1>2

(***************************************************************************)
(* A settled page hears every channel it keeps, on the socket it uses: for *)
(* any sockets, channels and number of broken connections, and any order   *)
(* of the loops, unless an authorization came for an earlier socket.       *)
(***************************************************************************)
THEOREM SettledPageHears == Spec => []HeardWhenSettled
<1>1. ASSUME Heard, Settled, ~late PROVE Kept \subseteq channels[cur] \cap subscribed \cap bound
  <2>1. \A t \in Tasks : task[t] = Idle
    BY <1>1 DEF Settled, Active
  <2>2. \A t \in Tasks : task[t].left = {} /\ task[t].asks = None /\ task[t].as = 0
    BY <2>1 DEF Idle
  <2>3. Settling
    BY <1>1, <2>2 DEF Settled, Settling, Overtaken
  <2>4. <<"channels", cur>> \in Tasks
    BY <1>1, <2>3 DEF Settling, IsOpen, Heard, Inv, TypeOK, Tasks
  <2>5. Kept \subseteq subscribed
    BY <1>1, <2>2, <2>3, NoneAssumption DEF Heard, Hearing, Known, Ahead, Kept
  <2>6. Kept \subseteq bound
    BY <1>1, <2>2, NoneAssumption DEF Heard, Steady, Joining, Kept
  <2> QED BY <1>1, <2>2, <2>3, <2>4, <2>5, <2>6 DEF Heard, Hearing, Announced
<1>2. Heard => HeardWhenSettled
  BY <1>1 DEF HeardWhenSettled
<1> QED BY <1>2, InitHeard, HeardSteps, PTL DEF Spec

=============================================================================
