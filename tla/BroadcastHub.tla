---------------------------- MODULE BroadcastHub ----------------------------
(***************************************************************************)
(* The WebSocket hub of a server process: the clients that are connected,  *)
(* the channels each has subscribed to, and who is present in the presence *)
(* channels. A token of the authorization endpoint is good for one socket  *)
(* id. A connection that ends with an error is closed by acceptWebSocket() *)
(* itself, and then its `close` does not reach the hub.                    *)
(***************************************************************************)
EXTENDS Naturals, FiniteSets

CONSTANTS
    Sockets,    \* connections, by their socket ids
    Channels,
    Guarded,    \* private and presence channels
    Presence    \* presence channels

ASSUME HubAssumption == Presence \subseteq Guarded /\ Guarded \subseteq Channels

VARIABLES
    clients,    \* the socket ids in the hub's table
    channels,   \* [Sockets -> the channels of a client]
    presence,   \* [Sockets -> the presence channels a client is in]
    members     \* [Presence -> socket ids], presenceMembers

hubVars == <<clients, channels, presence, members>>

HubInit ==
    /\ clients = {}
    /\ channels = [s \in Sockets |-> {}]
    /\ presence = [s \in Sockets |-> {}]
    /\ members = [p \in Presence |-> {}]

HubTypeOK ==
    /\ clients \subseteq Sockets
    /\ channels \in [Sockets -> SUBSET Channels]
    /\ presence \in [Sockets -> SUBSET Presence]
    /\ members \in [Presence -> SUBSET Sockets]

\* handleUpgrade(): the client is entered, and greeted with its socket id.
Upgrade(s) ==
    /\ clients' = clients \cup {s}
    /\ UNCHANGED <<channels, presence, members>>

\* joinPresence(); a second one of the same socket replaces the member.
JoinPresence(s, ch) ==
    /\ presence' = [presence EXCEPT ![s] = @ \cup {ch}]
    /\ members' = [members EXCEPT ![ch] = @ \cup {s}]

\* leavePresence() of each of the channels: nothing where s is no member.
LeavePresence(s, chs) ==
    LET member == {p \in chs \cap Presence : s \in members[p]} IN
    /\ presence' = [presence EXCEPT ![s] = @ \ member]
    /\ members' = [p \in Presence |-> IF p \in member THEN members[p] \ {s} ELSE members[p]]

\* `subscribe` with a token made for the socket id `for`.
HubSubscribe(s, ch, for) ==
    IF s \notin clients \/ (ch \in Guarded /\ for # s) THEN UNCHANGED hubVars
    ELSE /\ channels' = [channels EXCEPT ![s] = @ \cup {ch}]
         /\ IF ch \in Presence THEN JoinPresence(s, ch) ELSE UNCHANGED <<presence, members>>
         /\ UNCHANGED clients

\* Mutant: `unsubscribe` leaves the presence table alone.
HubUnsubscribeOnly(s, ch) ==
    IF s \notin clients THEN UNCHANGED hubVars
    ELSE /\ channels' = [channels EXCEPT ![s] = @ \ {ch}]
         /\ UNCHANGED <<clients, presence, members>>

\* `unsubscribe`
HubUnsubscribe(s, ch) ==
    IF s \notin clients THEN UNCHANGED hubVars
    ELSE /\ channels' = [channels EXCEPT ![s] = @ \ {ch}]
         /\ LeavePresence(s, {ch})
         /\ UNCHANGED clients

\* removeClient(): the client leaves the presence channels it knows of, then
\* the table.
RemoveClient(s) ==
    /\ clients' = clients \ {s}
    /\ channels' = [channels EXCEPT ![s] = {}]
    /\ LeavePresence(s, presence[s])

(***************************************************************************)
(* The two tables of the hub agree: who is present in a channel is a       *)
(* client that has it among its presence channels and is subscribed to it, *)
(* so that nobody is announced who no longer hears the channel.            *)
(***************************************************************************)
PresenceAgrees ==
    \A p \in Presence : members[p] = {s \in clients : p \in presence[s] /\ p \in channels[s]}

=============================================================================
