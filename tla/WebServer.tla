----------------------------- MODULE WebServer -----------------------------
(***************************************************************************)
(* class EleroWebServer (components/elero_web/elero_web_server.cpp): what  *)
(* a browser knows of the registry, and the backup that can be imported    *)
(* again.  A client gets everything when it connects and a message for     *)
(* every change after that; broadcasts are dropped while the UI is         *)
(* disabled, also for the clients that stay connected.                     *)
(*                                                                         *)
(* An import runs in one callback of the web server: no other handler of   *)
(* the main loop comes between its entries, but a restart may.  "todo" are *)
(* the places in the backup of the entries it has yet to apply.            *)
(***************************************************************************)
EXTENDS DeviceRegistry

CONSTANT NoBackup

VARIABLES
  client,   \* the browser: open, the devices and groups it shows
  enabled,  \* enabled_
  synced,   \* history: the client has been sent every change
  backup,   \* the last exported snapshot: its entries, by their places
  todo      \* the places of the entries an import has yet to apply

webVars == <<client, enabled, synced, backup, todo>>

(* build_config_json                                                       *)
Shown ==
  [open |-> TRUE,
   devs |-> {slots[i].cfg : i \in {j \in Slots : slots[j] # NoDevice}},
   grps |-> {groups[g] : g \in {h \in GroupSlots : groups[h] # NoGroup}}]
Closed == [open |-> FALSE, devs |-> {}, grps |-> {}]

(* handle_ws_upgrade and the close event                                   *)
ClientOpens ==
  /\ ~client.open
  /\ client' = IF enabled THEN Shown ELSE [Closed EXCEPT !.open = TRUE]
  /\ synced' = enabled
  /\ UNCHANGED <<enabled, backup, todo>>
ClientCloses ==
  /\ client.open /\ client' = Closed /\ synced' = TRUE
  /\ UNCHANGED <<enabled, backup, todo>>

(* set_enabled: the switch entity                                          *)
Toggle == enabled' = ~enabled /\ UNCHANGED <<client, synced, backup, todo>>

----------------------------------------------------------------------------
(* device_upserted, device_removed, group_upserted, group_removed          *)
OtherDevices(c, cfg) == {d \in c.devs : d.addr # cfg.addr \/ d.type # cfg.type}

ShowDevice(c, cfg) == [c EXCEPT !.devs = OtherDevices(c, cfg) \cup {cfg}]
HideDevice(c, cfg) == [c EXCEPT !.devs = OtherDevices(c, cfg)]
ShowGroups(c, changes) ==
  [c EXCEPT !.grps = {g \in c.grps : g.id \notin DOMAIN changes}
                       \cup ({changes[id] : id \in DOMAIN changes} \ {NoGroup})]

\* mutant: a device that is only configured anew is not broadcast
ShowAdded(c, e) ==
  CASE e.kind = "added" -> ShowDevice(c, e.dev.cfg)
    [] e.kind = "removed" -> ShowGroups(HideDevice(c, e.dev.cfg), e.changes)
    [] e.kind = "groups" -> ShowGroups(c, e.changes)
    [] OTHER -> c

Show(c, e) ==
  CASE e.kind \in {"added", "config"} -> ShowDevice(c, e.dev.cfg)
    [] e.kind = "removed" -> ShowGroups(HideDevice(c, e.dev.cfg), e.changes)
    [] e.kind = "groups" -> ShowGroups(c, e.changes)
    [] OTHER -> c

(* ws_broadcast: nothing is sent while the UI is disabled.                 *)
Broadcast(e) ==
  /\ client' = IF client.open /\ enabled THEN Show(client, e) ELSE client
  /\ synced' = (synced /\ (client.open => enabled))
WebHears(e) == Broadcast(e) /\ UNCHANGED <<enabled, backup, todo>>

----------------------------------------------------------------------------
(* build_config_snapshot_json_: the hub name if one is set, the saved      *)
(* devices in slot order, the groups.  It is read back by the parsers that *)
(* the editing handlers use.                                               *)
Export ==
  LET saved == {i \in Slots : slots[i] # NoDevice /\ slots[i].saved}
      used == {g \in GroupSlots : groups[g] # NoGroup}
      places == (IF hub = NoName THEN {} ELSE {0}) \cup saved \cup {MAX_DEVICES + g : g \in used}
  IN [k \in places |->
        IF k = 0 THEN [op |-> "hub", name |-> hub]
        ELSE IF k \in Slots THEN [op |-> "device", cfg |-> slots[k].cfg]
        ELSE [op |-> "group", id |-> groups[k - MAX_DEVICES].id,
              members |-> groups[k - MAX_DEVICES].members]]

ExportConfig == backup' = Export /\ UNCHANGED <<client, enabled, synced, todo>>

(* handle_import_config_ begins: hub, then devices, then groups.           *)
StartImport ==
  /\ backup # NoBackup /\ DOMAIN backup # {} /\ todo = {}
  /\ todo' = DOMAIN backup
  /\ UNCHANGED <<client, enabled, synced, backup>>

(* One entry: the registry's operation, or nothing if it is refused.       *)
Applied(e) ==
  \/ e.op = "hub" /\ SetHubName(e.name)
  \/ e.op = "device" /\ Upsert(e.cfg)
  \/ e.op = "group" /\ StoreGroup(e.id, e.members)
Refused(e) ==
  CASE e.op = "hub"    -> e.name = hub
    [] e.op = "device" -> ~HasRoom(e.cfg)
    [] e.op = "group"  -> ~ValidMembers(e.members, slots)
                            \/ (GroupsWith(e.id) = {} /\ FreeGroups = {})
EntryEvent(e) ==
  CASE e.op = "hub"    -> HubEvent
    [] e.op = "device" -> UpsertEvent(e.cfg)
    [] e.op = "group"  -> GroupEvent(e.id, e.members)

(* The entry whose turn it is, in the order of the arrays.                 *)
Entry == backup[First(todo)]
EntryDone == todo' = todo \ {First(todo)}

----------------------------------------------------------------------------
WebInit ==
  client = Closed /\ enabled = TRUE /\ synced = TRUE /\ backup = NoBackup /\ todo = {}

(* A restart closes the connections and ends an import where it is; the    *)
(* backup is the browser's.                                                *)
WebRestarts ==
  client' = Closed /\ enabled' = TRUE /\ synced' = TRUE /\ backup' = backup /\ todo' = {}

(* What a browser shows is what the registry holds, as long as the UI was  *)
(* not disabled while it was connected: also the groups that a removal     *)
(* pruned and the remotes that were discovered.                            *)
ClientMirrors ==
  client.open /\ synced /\ ~doubled => client = Shown
=============================================================================
