--------------------------- MODULE DeviceRegistry ---------------------------
(***************************************************************************)
(* class DeviceRegistry (components/elero/device_registry.cpp): the array  *)
(* of device slots and the array of saved groups that every adapter reads  *)
(* and writes, and the preferences (NVS) that bring both back at boot.     *)
(*                                                                         *)
(* A configuration is abstracted to what the registry's decisions depend   *)
(* on: type, address, the remote it is operated from, the enabled flag,    *)
(* where its tilt duration comes from, and a name that tells one saved     *)
(* version from the next.  What a device does (its state machine and its   *)
(* queue) is the subject of CoverDevice, LightDevice and CommandSender.    *)
(*                                                                         *)
(* save() of a preference is not a write to flash: ESPHome keeps the value *)
(* and flushes it later.  "nvs" is what has been saved, "disk" what a boot *)
(* would find; a restart may hit the flush half-way.  What an operation    *)
(* notifies the adapters of are the operators ...Event, which MqttAdapter  *)
(* and WebServer react to.                                                 *)
(***************************************************************************)
EXTENDS Integers, FiniteSets, Sequences

CONSTANTS
  MAX_DEVICES,      \* DeviceRegistry::MAX_DEVICES
  MAX_GROUPS,       \* DeviceRegistry::MAX_GROUPS
  GROUP_MAX_DESTS,  \* packet::GROUP_MAX_DESTS, per remote
  Addrs,            \* device addresses
  Remotes,          \* addresses of the remotes devices are operated from
  Names,            \* names of devices: one per saved version
  DefaultName,      \* the name given to a discovered remote
  GroupIds,         \* ids of saved groups
  HubNames,         \* hub names; one of them is the empty override
  NoName,           \* the empty override
  Images,           \* what an earlier firmware left in NVS
  NoDevice,         \* an inactive slot
  NoGroup,          \* an unused group slot, or a cleared group record
  NoRecord          \* a cleared device record

Slots == 1 .. MAX_DEVICES
GroupSlots == 1 .. MAX_GROUPS
Types == {"cover", "light", "remote"}

(* "tilt" is "stale" in a record of version 3: the four bytes hold the     *)
(* poll interval of that version.                                          *)
Config == [type : Types, addr : Addrs, src : Remotes, enabled : BOOLEAN,
           tilt : {"none", "set"}, name : Names]
Record == [ver : {4}, cfg : Config]
            \cup [ver : {3}, cfg : [type : Types, addr : Addrs, src : Remotes, enabled : BOOLEAN,
                                    tilt : {"none", "stale"}, name : Names]]

(* A device slot in use; "saved" is config.updated_at # 0.                 *)
Device == [cfg : Config, saved : BOOLEAN]
Group == [id : GroupIds, members : SUBSET Addrs]
Storage == [dev : [Slots -> Record \cup {NoRecord}],
            grp : [GroupSlots -> Group \cup {NoGroup}],
            hub : HubNames]

ASSUME RegistryAssumption ==
  /\ MAX_DEVICES \in Nat \ {0} /\ MAX_GROUPS \in Nat \ {0} /\ GROUP_MAX_DESTS \in Nat
  /\ DefaultName \in Names /\ NoName \in HubNames /\ Remotes # {} /\ IsFiniteSet(Addrs)
  /\ NoDevice \notin Device /\ NoGroup \notin Group /\ NoRecord \notin Record

(* What a boot may find: at most one record for an address and type.       *)
ASSUME ImagesAssumption ==
  \A image \in Images :
    /\ image \in Storage
    /\ \A i, j \in Slots :
         /\ image.dev[i] # NoRecord /\ image.dev[j] # NoRecord
         /\ image.dev[i].cfg.addr = image.dev[j].cfg.addr
         /\ image.dev[i].cfg.type = image.dev[j].cfg.type
         => i = j

VARIABLES
  slots,   \* slots_
  groups,  \* groups_
  hub,     \* hub_name_override_
  nvs,     \* the preferences as saved
  disk,    \* the preferences as flushed
  torn,    \* history: a restart found only a part of what had been saved
  doubled  \* history: the last boot restored a device or a group twice

regVars == <<slots, groups, hub, nvs, disk, torn, doubled>>

----------------------------------------------------------------------------
(* Lookup.  The loops over the slots return the first match.               *)
First(S) == CHOOSE i \in S : \A j \in S : i <= j
Latest(S) == CHOOSE i \in S : \A j \in S : j <= i
Free(ss) == {i \in Slots : ss[i] = NoDevice}
At(ss, a) == {i \in Slots : ss[i] # NoDevice /\ ss[i].cfg.addr = a}
Matches(ss, a, t) == {i \in At(ss, a) : ss[i].cfg.type = t}
DeviceAt(ss, a) == ss[First(At(ss, a))].cfg

FreeGroups == {g \in GroupSlots : groups[g] = NoGroup}
GroupsWith(id) == {g \in GroupSlots : groups[g] # NoGroup /\ groups[g].id = id}

(* validate_group_ on the members, which the caller passes as a list.      *)
ValidMembers(M, ss) ==
  /\ Cardinality(M) >= 2
  /\ \A a \in M : At(ss, a) # {} /\ DeviceAt(ss, a).type # "remote"
  /\ \A a, b \in M : DeviceAt(ss, a).type = DeviceAt(ss, b).type
  /\ \A r \in Remotes : Cardinality({a \in M : DeviceAt(ss, a).src = r}) <= GROUP_MAX_DESTS

(* Two slots that hold the same device, or the same group.                 *)
Twins(ss) ==
  \E i, j \in Slots :
    /\ i # j /\ ss[i] # NoDevice /\ ss[j] # NoDevice
    /\ ss[i].cfg.addr = ss[j].cfg.addr /\ ss[i].cfg.type = ss[j].cfg.type
GroupTwins(gs) ==
  \E g, h \in GroupSlots :
    /\ g # h /\ gs[g] # NoGroup /\ gs[h] # NoGroup /\ gs[g].id = gs[h].id

Distinct(ids) == \A k, l \in DOMAIN ids : ids[k] = ids[l] => k = l
MembersOf(ids) == {ids[k] : k \in DOMAIN ids}

----------------------------------------------------------------------------
(* Boot: init_preferences and restore_all on the records in flash.         *)

(* migrate_device_config_: version 3 becomes version 4 and loses the poll  *)
(* interval that sits where the tilt duration now is.                      *)
\* mutant: the bytes of version 3 are taken over as they are
MigratedKeeps(r) == [ver |-> 4, cfg |-> r.cfg]

Migrated(r) == [ver |-> 4, cfg |-> [r.cfg EXCEPT !.tilt = IF r.ver = 3 THEN "none" ELSE @]]

RestoredDevices(d) ==
  [i \in Slots |-> IF d.dev[i] = NoRecord THEN NoDevice
                   ELSE [cfg |-> Migrated(d.dev[i]).cfg, saved |-> TRUE]]
RestoredGroups(d, ss) ==
  [g \in GroupSlots |-> IF d.grp[g] # NoGroup /\ ValidMembers(d.grp[g].members, ss)
                        THEN d.grp[g] ELSE NoGroup]
MigratedStorage(d) ==
  [d EXCEPT !.dev = [i \in Slots |-> IF d.dev[i] = NoRecord THEN NoRecord ELSE Migrated(d.dev[i])]]

Boot(d) ==
  /\ slots' = RestoredDevices(d)
  /\ groups' = RestoredGroups(d, RestoredDevices(d))
  /\ hub' = d.hub
  /\ disk' = d
  /\ nvs' = MigratedStorage(d)

(* The first boot of this firmware, on what an earlier one left.           *)
RegInit ==
  \E d \in Images :
    /\ slots = RestoredDevices(d)
    /\ groups = RestoredGroups(d, RestoredDevices(d))
    /\ hub = d.hub
    /\ disk = d
    /\ nvs = MigratedStorage(d)
    /\ torn = FALSE /\ doubled = (Twins(slots) \/ GroupTwins(groups))

----------------------------------------------------------------------------
(* upsert                                                                  *)
HasRoom(c) == Matches(slots, c.addr, c.type) # {} \/ Free(slots) # {}
\* mutant: a free slot is taken without looking for the device first
SlotForNew(c) == First(IF Free(slots) # {} THEN Free(slots) ELSE Matches(slots, c.addr, c.type))

SlotFor(c) == LET known == Matches(slots, c.addr, c.type)
              IN First(IF known # {} THEN known ELSE Free(slots))

Upsert(c) ==
  /\ HasRoom(c)
  /\ slots' = [slots EXCEPT ![SlotFor(c)] = [cfg |-> c, saved |-> TRUE]]
  /\ nvs' = [nvs EXCEPT !.dev[SlotFor(c)] = [ver |-> 4, cfg |-> c]]
  /\ UNCHANGED <<groups, hub, disk, torn, doubled>>

UpsertEvent(c) ==
  [kind |-> IF Matches(slots, c.addr, c.type) # {} THEN "config" ELSE "added",
   dev |-> [cfg |-> c, saved |-> TRUE]]

\* mutant: only the groups that must go are touched
PruneGroupLazy(g, a) ==
  IF g # NoGroup /\ a \in g.members /\ Cardinality(g.members \ {a}) < 2 THEN NoGroup ELSE g

(* remove: the record is cleared, the slot freed, and the address taken    *)
(* out of every group; a group left with fewer than two members goes.      *)
PruneGroup(g, a) ==
  CASE g = NoGroup -> NoGroup
    [] g # NoGroup /\ a \notin g.members -> g
    [] OTHER -> IF Cardinality(g.members \ {a}) < 2 THEN NoGroup
                ELSE [g EXCEPT !.members = @ \ {a}]

PrunedGroups(a) == [g \in GroupSlots |-> PruneGroup(groups[g], a)]

\* mutant: a group that loses a member is not saved again
PrunedRecordsForget(a) ==
  [g \in GroupSlots |-> IF PrunedGroups(a)[g] # groups[g] /\ PrunedGroups(a)[g] = NoGroup
                        THEN NoGroup ELSE nvs.grp[g]]

(* The records that the pruning writes: those of the groups it changed.    *)
PrunedRecords(a) ==
  [g \in GroupSlots |-> IF PrunedGroups(a)[g] # groups[g] THEN PrunedGroups(a)[g] ELSE nvs.grp[g]]

RemoveDevice(a, t) ==
  /\ Matches(slots, a, t) # {}
  /\ LET i == First(Matches(slots, a, t)) IN
     /\ slots' = [slots EXCEPT ![i] = NoDevice]
     /\ nvs' = [nvs EXCEPT !.dev[i] = NoRecord, !.grp = PrunedRecords(a)]
  /\ groups' = PrunedGroups(a)
  /\ UNCHANGED <<hub, disk, torn, doubled>>

(* The adapters hear of the device, then of the groups that lost it in     *)
(* slot order: what a group has become, by its id (the last slot of an id  *)
(* stands).                                                                *)
Pruned(a) == {g \in GroupSlots : PrunedGroups(a)[g] # groups[g]}
PruneChanges(a) ==
  [id \in {groups[g].id : g \in Pruned(a)} |->
     PrunedGroups(a)[Latest({g \in Pruned(a) : groups[g].id = id})]]
RemoveEvent(a, t) ==
  [kind |-> "removed", dev |-> slots[First(Matches(slots, a, t))], changes |-> PruneChanges(a)]

(* upsert_group: a group of that id is replaced, or the first free slot is *)
(* taken.                                                                  *)
GroupSlotFor(id) == First(IF GroupsWith(id) # {} THEN GroupsWith(id) ELSE FreeGroups)

StoreGroup(id, M) ==
  LET grp == [id |-> id, members |-> M] IN
  /\ ValidMembers(M, slots)
  /\ GroupsWith(id) # {} \/ FreeGroups # {}
  /\ groups' = [groups EXCEPT ![GroupSlotFor(id)] = grp]
  /\ nvs' = [nvs EXCEPT !.grp[GroupSlotFor(id)] = grp]
  /\ UNCHANGED <<slots, hub, disk, torn, doubled>>

UpsertGroup(id, ids) == Distinct(ids) /\ StoreGroup(id, MembersOf(ids))

GroupEvent(id, M) == [kind |-> "groups", changes |-> [k \in {id} |-> [id |-> id, members |-> M]]]

RemoveGroup(id) ==
  /\ GroupsWith(id) # {}
  /\ LET g == First(GroupsWith(id)) IN
     /\ groups' = [groups EXCEPT ![g] = NoGroup]
     /\ nvs' = [nvs EXCEPT !.grp[g] = NoGroup]
  /\ UNCHANGED <<slots, hub, disk, torn, doubled>>

RemoveGroupEvent(id) == [kind |-> "groups", changes |-> [k \in {id} |-> NoGroup]]

(* track_remote_ for a command packet from an unknown remote: it takes a   *)
(* slot, and is not saved.                                                 *)
Discovered(a) == [type |-> "remote", addr |-> a, src |-> CHOOSE r \in Remotes : TRUE,
                  enabled |-> TRUE, tilt |-> "none", name |-> DefaultName]

TrackRemote(a) ==
  /\ Matches(slots, a, "remote") = {} /\ Free(slots) # {}
  /\ slots' = [slots EXCEPT ![First(Free(slots))] = [cfg |-> Discovered(a), saved |-> FALSE]]
  /\ UNCHANGED <<groups, hub, nvs, disk, torn, doubled>>

TrackEvent(a) == [kind |-> "added", dev |-> [cfg |-> Discovered(a), saved |-> FALSE]]

(* set_hub_name_override: an equal name is not saved again.                *)
SetHubName(n) ==
  /\ n # hub
  /\ hub' = n
  /\ nvs' = [nvs EXCEPT !.hub = n]
  /\ UNCHANGED <<slots, groups, disk, torn, doubled>>

HubEvent == [kind |-> "hub"]

----------------------------------------------------------------------------
(* ESPHome's preferences: the flush of everything saved, and a restart.    *)
Flush == disk # nvs /\ disk' = nvs /\ UNCHANGED <<slots, groups, hub, nvs, torn, doubled>>

Keys == {<<"dev", i>> : i \in Slots} \cup {<<"grp", g>> : g \in GroupSlots} \cup {<<"hub", 1>>}
(* The storage in which only the preferences of S have been flushed.       *)
Flushed(S) ==
  [dev |-> [i \in Slots |-> IF <<"dev", i>> \in S THEN nvs.dev[i] ELSE disk.dev[i]],
   grp |-> [g \in GroupSlots |-> IF <<"grp", g>> \in S THEN nvs.grp[g] ELSE disk.grp[g]],
   hub |-> IF <<"hub", 1>> \in S THEN nvs.hub ELSE disk.hub]

Unflushed ==
  {k \in Keys : CASE k[1] = "dev" -> nvs.dev[k[2]] # disk.dev[k[2]]
                 [] k[1] = "grp" -> nvs.grp[k[2]] # disk.grp[k[2]]
                 [] OTHER        -> nvs.hub # disk.hub}

Restart(S) ==
  /\ Boot(Flushed(S))
  /\ torn' = (torn \/ Flushed(S) \notin {nvs, disk})
  /\ doubled' = (Twins(slots') \/ GroupTwins(groups'))

RegNext ==
  \/ \E c \in Config : Upsert(c)
  \/ \E a \in Addrs, t \in Types : RemoveDevice(a, t)
  \/ \E id \in GroupIds, ids \in Seq(Addrs) : UpsertGroup(id, ids)
  \/ \E id \in GroupIds : RemoveGroup(id)
  \/ \E a \in Addrs : TrackRemote(a)
  \/ \E n \in HubNames : SetHubName(n)
  \/ Flush
  \/ \E S \in SUBSET Keys : Restart(S)

RegSpec == RegInit /\ [][RegNext]_regVars

----------------------------------------------------------------------------
(* Types, in particular: no poll interval of version 3 is ever taken for a *)
(* tilt duration, whatever restart interrupts the migration.               *)
RegTypeOK ==
  /\ slots \in [Slots -> Device \cup {NoDevice}]
  /\ groups \in [GroupSlots -> Group \cup {NoGroup}]
  /\ hub \in HubNames
  /\ nvs \in Storage /\ disk \in Storage
  /\ torn \in BOOLEAN /\ doubled \in BOOLEAN

(* What is saved is what the registry holds: a record for exactly the      *)
(* active devices that are persisted, with their configuration, and the    *)
(* record of every group in use (device_registry.cpp persist, remove,      *)
(* prune_device_from_groups_, restore_all).  A group that restore_all      *)
(* skips keeps its record, so nothing is said of the unused group slots.   *)
StoreMatches ==
  /\ \A i \in Slots :
       nvs.dev[i] = IF slots[i] # NoDevice /\ slots[i].saved
                    THEN [ver |-> 4, cfg |-> slots[i].cfg] ELSE NoRecord
  /\ \A g \in GroupSlots : groups[g] # NoGroup => nvs.grp[g] = groups[g]
  /\ nvs.hub = hub

(* Two slots hold the same device only after a restart that found a part   *)
(* of what had been saved: a device that moved to another slot is then     *)
(* restored in both.                                                       *)
TwinsNeedTornWrite == Twins(slots) => torn

(* The members of a group are known devices that can be commanded, and     *)
(* there are at least two, whatever was removed, re-created under another  *)
(* type or lost by a restart since the group was saved.                    *)
MembersKnown ==
  \A g \in GroupSlots : groups[g] # NoGroup =>
    /\ Cardinality(groups[g].members) >= 2
    /\ \A a \in groups[g].members :
         \E i \in At(slots, a) : slots[i].cfg.type # "remote"
=============================================================================
