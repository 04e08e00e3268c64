---------------------------- MODULE MqttAdapter ----------------------------
(***************************************************************************)
(* class MqttAdapter (components/elero_mqtt/mqtt_adapter.cpp): the Home    *)
(* Assistant entities as retained discovery messages at the MQTT broker,   *)
(* and the subscriptions through which commands come back.                 *)
(*                                                                         *)
(* A device publishes up to four discovery topics, always together: they   *)
(* are one topic here, with the configuration as payload.  A group has its *)
(* discovery and, besides, its attributes (its members and their type).    *)
(* The states of devices are not retained and are left out; so is the      *)
(* gateway's birth message, which is always the same.  The link has three  *)
(* states: "half" is a connection that is dead although the client still   *)
(* believes in it, so that is_connected() is true and what is published is *)
(* lost.                                                                   *)
(***************************************************************************)
EXTENDS DeviceRegistry

CONSTANT NoMessage  \* a topic without a retained message

(* The object id of a group holds "_group_", that of a device its type and *)
(* address: they never name the same topic.                                *)
ASSUME TopicsAssumption == GroupIds \cap Addrs = {}

VARIABLES
  link,       \* "down", "half" or "up": the client's connection (external)
  connected,  \* mqtt_was_connected_
  cleanup,    \* cleanup_state_
  offered,    \* retained messages the broker delivers to the collection (external)
  missed,     \* history: stale ones that the last collection did not see
  wire        \* the retained messages, the subscriptions, and "gap": history,
              \* command topics of devices announced without subscribing

mqttVars == <<link, connected, cleanup, offered, missed, wire>>

Gateway == <<"gateway", "state">>
TopicOf(c) == <<c.type, c.addr>>
CommandTopic(id) == <<"group", id>>
GroupTopics(ids) == {"cover", "light", "attributes"} \X ids
Topics == {Gateway} \cup (Types \X Addrs) \cup GroupTopics(GroupIds)

(* What start_stale_collection_ subscribes to: <domain>/+/config.          *)
DiscoveryTopics == {t \in Topics : t[1] # "attributes"}

is_connected == link # "down"

----------------------------------------------------------------------------
(* publish(): one message, several (a function from their places), or the  *)
(* empty ones that withdraw the topics of T; and the two halves of         *)
(* subscribe().  A dead link loses what is published, while the client     *)
(* keeps its list of subscriptions.                                        *)
Put(w, t, p) ==
  IF link = "up" THEN [w EXCEPT !.retained = [w.retained EXCEPT ![t] = p]] ELSE w
PutAll(w, M) ==
  LET of(t) == {k \in DOMAIN M : M[k].topic = t}
      retained == [t \in Topics |-> IF of(t) = {} THEN w.retained[t] ELSE M[Latest(of(t))].payload]
  IN IF link = "up" THEN [w EXCEPT !.retained = retained] ELSE w
Withdrawn(w, T) ==
  [w EXCEPT !.retained =
     [t \in Topics |-> IF link = "up" /\ t \in T THEN NoMessage ELSE w.retained[t]]]
Listen(w, T) == [w EXCEPT !.subs = w.subs \cup T, !.gap = w.gap \ T]
Mute(w, T) == [w EXCEPT !.subs = w.subs \ T, !.gap = w.gap \ T]

(* group_type_: the one type of the members, if they still have one.       *)
Typed(grp, ss) ==
  /\ \A a \in grp.members : At(ss, a) # {} /\ DeviceAt(ss, a).type # "remote"
  /\ \A a, b \in grp.members : DeviceAt(ss, a).type = DeviceAt(ss, b).type
GroupType(grp, ss) == DeviceAt(ss, CHOOSE a \in grp.members : TRUE).type

(* publish_group_discovery_: the discovery and the attributes of a group.  *)
GroupTopicOf(kind, grp, ss) ==
  <<IF kind = "attributes" THEN kind ELSE GroupType(grp, ss), grp.id>>
GroupPayload(kind, grp, ss, name) ==
  IF kind = "attributes" THEN [members |-> grp.members, type |-> GroupType(grp, ss)]
  ELSE [hub |-> name]

(* Those of the groups of gs, which are published in slot order.           *)
TypedIn(gs, ss) == {g \in GroupSlots : gs[g] # NoGroup /\ Typed(gs[g], ss)}
GroupMessages(kind, gs, ss, name) ==
  [g \in TypedIn(gs, ss) |-> [topic |-> GroupTopicOf(kind, gs[g], ss),
                              payload |-> GroupPayload(kind, gs[g], ss, name)]]
GroupsPublished(w, gs, ss, name) ==
  PutAll(PutAll(w, GroupMessages("config", gs, ss, name)), GroupMessages("attributes", gs, ss, name))

(* The entities of each type; covers and lights take commands, a cover on  *)
(* three topics (its action, its position, its tilt).                      *)
CoverCommands(a) == {"set", "set_position", "tilt"} \X {a}
LightCommands(a) == {"light"} \X {a}
AnnounceCover(w, c) == Put(w, TopicOf(c), c)
AnnounceLight(w, c) == Put(w, TopicOf(c), c)
AnnounceRemote(w, c) == Put(w, TopicOf(c), c)
Announce(w, c) ==
  CASE c.type = "cover"  -> AnnounceCover(w, c)
    [] c.type = "light"  -> AnnounceLight(w, c)
    [] c.type = "remote" -> AnnounceRemote(w, c)

CommandsOf(c) ==
  CASE c.type = "cover"  -> CoverCommands(c.addr)
    [] c.type = "light"  -> LightCommands(c.addr)
    [] c.type = "remote" -> {}
Subscribe(w, c) == Listen(w, CommandsOf(c))

(* on_device_added, remove_all_discovery_, on_config_changed               *)
DeviceAdded(w, d) ==
  IF d.cfg.enabled /\ d.saved THEN Subscribe(Announce(w, d.cfg), d.cfg) ELSE w

DeviceRemoved(w, d) == Mute(Put(w, TopicOf(d.cfg), NoMessage), CommandsOf(d.cfg))

ConfigChanged(w, d) ==
  IF ~d.cfg.enabled THEN DeviceRemoved(w, d)
  ELSE LET shown == Announce(w, d.cfg) IN
       [shown EXCEPT !.gap = w.gap \cup (CommandsOf(d.cfg) \ w.subs)]

(* on_group_upserted and on_group_removed, for the groups of "changes":    *)
(* remove_group_discovery_ clears every topic, since the type may have     *)
(* changed, and what is left of the group is announced again.              *)
GroupShown(changes, ss, t) ==
  /\ changes[t[2]] # NoGroup /\ Typed(changes[t[2]], ss)
  /\ t[1] \in {"attributes", GroupType(changes[t[2]], ss)}
GroupsCleared(w, ids) ==
  Mute(Withdrawn(w, GroupTopics(ids)), {CommandTopic(id) : id \in ids})
GroupsChanged(w, changes, ss, name) ==
  LET clear == GroupsCleared(w, DOMAIN changes)
      shown == {t \in GroupTopics(DOMAIN changes) : GroupShown(changes, ss, t)}
  IN Listen([clear EXCEPT !.retained =
               [t \in Topics |-> IF link = "up" /\ t \in shown
                                 THEN GroupPayload(t[1], changes[t[2]], ss, name)
                                 ELSE clear.retained[t]]],
            {CommandTopic(t[2]) : t \in shown})

(* on_hub_config_changed: the gateway and the groups carry the hub's name. *)
HubRenamed(w, gs, ss, name) == GroupsPublished(Put(w, Gateway, [hub |-> name]), gs, ss, name)

Handle(w, e) ==
  CASE e.kind = "added"   -> DeviceAdded(w, e.dev)
    [] e.kind = "removed" -> GroupsChanged(DeviceRemoved(w, e.dev), e.changes, slots', hub')
    [] e.kind = "config"  -> ConfigChanged(w, e.dev)
    [] e.kind = "groups"  -> GroupsChanged(w, e.changes, slots', hub')
    [] e.kind = "hub"     -> HubRenamed(w, groups', slots', hub')

(* The adapter's part of a registry operation that notifies of e.          *)
(* While the wildcard subscriptions stand, the broker echoes what is       *)
(* published.                                                              *)
MqttHears(e) ==
  /\ wire' = IF is_connected THEN Handle(wire, e) ELSE wire
  /\ offered' = IF cleanup # "COLLECTING" THEN offered
                ELSE offered \cup {t \in DiscoveryTopics : /\ wire'.retained[t] # wire.retained[t]
                                                           /\ wire'.retained[t] # NoMessage}
  /\ UNCHANGED <<link, connected, cleanup, missed>>

----------------------------------------------------------------------------
(* The broker's side.  The client's state changes between two calls of     *)
(* loop(), and connecting takes several of them: loop() sees every outage. *)
Connect ==
  /\ link = "down" /\ ~connected
  /\ link' = "up" /\ UNCHANGED <<connected, cleanup, offered, missed, wire>>
LinkDies ==
  /\ link = "up"
  /\ link' = "half" /\ offered' = {} /\ UNCHANGED <<connected, cleanup, missed, wire>>
Disconnect ==
  /\ is_connected
  /\ link' = "down" /\ offered' = {} /\ UNCHANGED <<connected, cleanup, missed, wire>>

----------------------------------------------------------------------------
(* loop()                                                                  *)
StartCollection ==
  /\ is_connected /\ ~connected
  /\ connected' = TRUE
  /\ cleanup' = "COLLECTING"
  /\ offered' = IF link = "up" THEN {t \in DiscoveryTopics : wire.retained[t] # NoMessage} ELSE {}
  /\ missed' = {}
  /\ UNCHANGED <<link, wire>>

SeesOutage ==
  /\ ~is_connected /\ (connected \/ cleanup # "IDLE")
  /\ connected' = FALSE /\ cleanup' = "IDLE"
  /\ UNCHANGED <<link, offered, missed, wire>>

(* collect_expected_topics_: the discovery topics of what is announced.    *)
Announced == {i \in Slots : slots[i] # NoDevice /\ slots[i].cfg.enabled}
TypedGroups == TypedIn(groups, slots)
Expected ==
  {Gateway} \cup {TopicOf(slots[i].cfg) : i \in Announced}
    \cup {GroupTopicOf("config", groups[g], slots) : g \in TypedGroups}

\* mutant: what carries the hub's own identifier, a group, is not taken for ours
StaleTopicsOfDevices(collected) == {t \in collected \ Expected : t[2] \notin GroupIds}

StaleTopics(collected) == collected \ Expected

DeviceMessages ==
  [i \in Announced |-> [topic |-> TopicOf(slots[i].cfg), payload |-> slots[i].cfg]]

\* mutant: a reconnect subscribes to the commands of the groups only
CommandTopicsGroups == {CommandTopic(groups[g].id) : g \in TypedGroups}

CommandTopics ==
  UNION {CommandsOf(slots[i].cfg) : i \in Announced}
    \cup {CommandTopic(groups[g].id) : g \in TypedGroups}

(* Then the gateway (finish_stale_cleanup_) and republish_all_.            *)
Republished(w) ==
  LET devices == PutAll(Put(w, Gateway, [hub |-> hub]), DeviceMessages)
      all == GroupsPublished(devices, groups, slots, hub)
  IN [all EXCEPT !.subs = w.subs \cup CommandTopics, !.gap = {}]

(* What there is a device or a group for (history).                        *)
Current ==
  {Gateway} \cup {TopicOf(slots[i].cfg) : i \in Announced}
    \cup {GroupTopicOf(kind, groups[g], slots) : kind \in {"config", "attributes"}, g \in TypedGroups}

(* STALE_COLLECT_DELAY_MS has passed: what was collected and is not        *)
(* expected is withdrawn, then everything is published again.  The broker  *)
(* delivered any part of what it offered: collected_topics_ is only read   *)
(* here, and chosen here (whether an expected one arrived makes no         *)
(* difference, MqttStep).  No collection ever sees the attributes.         *)
FinishCleanup(collected) ==
  /\ is_connected /\ connected /\ cleanup = "COLLECTING"
  /\ cleanup' = "DONE"
  /\ offered' = {}
  /\ missed' = ((offered \ collected)
                  \cup {t \in Topics \ DiscoveryTopics : wire.retained[t] # NoMessage}) \ Current
  /\ wire' = Republished(Withdrawn(wire, StaleTopics(collected)))
  /\ UNCHANGED <<link, connected>>

MqttStep ==
  \/ StartCollection \/ SeesOutage
  \/ \E late \in SUBSET (offered \ Expected) : FinishCleanup(offered \ late)

----------------------------------------------------------------------------
MqttInit ==
  /\ link = "down" /\ connected = FALSE /\ cleanup = "IDLE"
  /\ offered = {} /\ missed = {}
  /\ wire = [retained |-> [t \in Topics |-> NoMessage], subs |-> {}, gap |-> {}]

(* A restart of the gateway: its client and the adapter start over, while  *)
(* the broker keeps the retained messages.                                 *)
MqttRestarts ==
  /\ link' = "down" /\ connected' = FALSE /\ cleanup' = "IDLE"
  /\ offered' = {} /\ missed' = {}
  /\ wire' = [wire EXCEPT !.subs = {}, !.gap = {}]

----------------------------------------------------------------------------
(* Two devices at one address: which of them a group's member is depends   *)
(* on their slots, and the group is not announced again when one is added. *)
Ambiguous(grp, ss) == \E a \in grp.members : \E i, j \in At(ss, a) : i # j

Settled == link = "up" /\ cleanup = "DONE" /\ ~doubled

(* Once a connection's cleanup is over, the broker shows the registry:     *)
(* every enabled saved device, and every group whose members are the only  *)
(* devices at their addresses, with its current configuration, members and *)
(* hub name; and nothing else but discoveries that did not arrive within   *)
(* the 500 ms of the collection, attributes of groups that were gone by    *)
(* then (which no collection sees), discovered remotes, and groups with a  *)
(* member at whose address there are two devices.                          *)
BrokerMirrors ==
  Settled =>
    /\ wire.retained[Gateway] = [hub |-> hub]
    /\ \A i \in Announced : slots[i].saved =>
         wire.retained[TopicOf(slots[i].cfg)] = slots[i].cfg
    /\ \A g \in GroupSlots : groups[g] # NoGroup /\ ~Ambiguous(groups[g], slots) =>
         /\ g \in TypedGroups
         /\ \A kind \in {"config", "attributes"} :
              wire.retained[GroupTopicOf(kind, groups[g], slots)]
                = GroupPayload(kind, groups[g], slots, hub)
    /\ \A t \in Topics : wire.retained[t] # NoMessage =>
         \/ t \in Current \cup missed
         \/ \E g \in GroupSlots : /\ groups[g] # NoGroup /\ groups[g].id = t[2]
                                  /\ Ambiguous(groups[g], slots)

(* Then also every cover and light that is shown can be commanded, but for *)
(* those enabled again since the last connection: on_config_changed        *)
(* announces them without subscribing.                                     *)
ShownIsHeard ==
  Settled =>
    \A i \in Announced :
      slots[i].saved =>
        CommandsOf(slots[i].cfg) \subseteq wire.subs \cup wire.gap
=============================================================================
