------------------------- MODULE GatewayProofs -------------------------
(***************************************************************************)
(* Theorems about the device registry and about the gateway that composes  *)
(* it with its adapters, for any number of slots, devices, groups, edits,  *)
(* imports, outages and boots, every restart hitting any part of a flush.  *)
(*                                                                         *)
(* The registry: its types, what is saved is what is held, one slot per    *)
(* device unless a restart found a part of a flush, and groups of known    *)
(* devices only.  The gateway implements the registry, and what a browser  *)
(* and the MQTT broker show is what the registry holds.                    *)
(*                                                                         *)
(* The argument for the adapters: each operation of the registry is one of *)
(* three changes (a device placed, a device emptied, a group replaced) or  *)
(* a new hub name, with the notification that tells it (Notified).  What   *)
(* an adapter makes of the notification is then compared with the change.  *)
(***************************************************************************)
EXTENDS Gateway, FiniteSetTheorems, WellFoundedInduction, TLAPS

(* No two records of a storage are of the same device.                     *)
TwinRecords(d) ==
  \E i, j \in Slots :
    /\ i # j /\ d.dev[i] # NoRecord /\ d.dev[j] # NoRecord
    /\ d.dev[i].cfg.addr = d.dev[j].cfg.addr
    /\ d.dev[i].cfg.type = d.dev[j].cfg.type

(* What is flushed holds no twins either, until a flush is torn.           *)
NoTwins == torn \/ (~Twins(slots) /\ ~TwinRecords(disk))

RegInv == RegTypeOK /\ StoreMatches /\ NoTwins /\ MembersKnown

----------------------------------------------------------------------------
(* Lookup: the first of some slots is one of them.                         *)

LEMMA FirstIsIn ==
  ASSUME NEW S \in SUBSET Nat, S # {}
  PROVE  First(S) \in S
<1> DEFINE R == {p \in Nat \X Nat : p[1] < p[2]}
<1>1. IsWellFoundedOn(R, Nat)
  <2>1. OpToRel(<, Nat) = R
    BY DEF OpToRel
  <2>2. QED BY <2>1, NatLessThanWellFounded
<1>2. \E x \in S : \A y \in S : <<y, x>> \notin R
  <2> HIDE DEF R
  <2>1. QED BY <1>1, WFMin
<1>3. \E x \in S : \A y \in S : x <= y
  <2>1. \A x, y \in Nat : <<y, x>> \notin R => x <= y
    OBVIOUS
  <2> HIDE DEF R
  <2>2. QED BY <1>2, <2>1
<1>4. QED BY <1>3 DEF First

LEMMA SlotsAreNat == Slots \subseteq Nat /\ GroupSlots \subseteq Nat
BY RegistryAssumption DEF Slots, GroupSlots

LEMMA FirstAt ==
  ASSUME NEW ss, NEW a, At(ss, a) # {}
  PROVE  First(At(ss, a)) \in At(ss, a)
BY SlotsAreNat, FirstIsIn DEF At

LEMMA FirstMatches ==
  ASSUME NEW ss, NEW a, NEW t, Matches(ss, a, t) # {}
  PROVE  First(Matches(ss, a, t)) \in Matches(ss, a, t)
BY SlotsAreNat, FirstIsIn DEF At, Matches

(* upsert's slot holds the device already, or nothing.                     *)
LEMMA SlotForIs ==
  ASSUME NEW c, HasRoom(c)
  PROVE  /\ SlotFor(c) \in Slots
         /\ \/ SlotFor(c) \in Matches(slots, c.addr, c.type)
            \/ slots[SlotFor(c)] = NoDevice /\ Matches(slots, c.addr, c.type) = {}
<1>1. CASE Matches(slots, c.addr, c.type) # {}
  <2>1. SlotFor(c) \in Matches(slots, c.addr, c.type)
    BY <1>1, FirstMatches DEF SlotFor
  <2>2. QED BY <2>1 DEF Matches, At
<1>2. CASE Matches(slots, c.addr, c.type) = {}
  <2>1. Free(slots) # {}
    BY <1>2 DEF HasRoom
  <2>2. First(Free(slots)) \in Free(slots)
    BY <2>1, SlotsAreNat, FirstIsIn DEF Free
  <2>3. QED BY <1>2, <2>2 DEF SlotFor, Free
<1>3. QED BY <1>1, <1>2

LEMMA GroupSlotForIs ==
  ASSUME NEW id, GroupsWith(id) # {} \/ FreeGroups # {}
  PROVE  GroupSlotFor(id) \in GroupSlots
BY SlotsAreNat, FirstIsIn DEF GroupSlotFor, GroupsWith, FreeGroups

----------------------------------------------------------------------------
(* Types.                                                                  *)

LEMMA MigratedType ==
  ASSUME NEW r \in Record
  PROVE  /\ Migrated(r) \in Record /\ Migrated(r) = [ver |-> 4, cfg |-> Migrated(r).cfg]
         /\ Migrated(r).cfg \in Config
         /\ Migrated(r).cfg.addr = r.cfg.addr /\ Migrated(r).cfg.type = r.cfg.type
<1> DEFINE Old == [type : Types, addr : Addrs, src : Remotes, enabled : BOOLEAN,
                   tilt : {"none", "stale"}, name : Names]
           c == [r.cfg EXCEPT !.tilt = IF r.ver = 3 THEN "none" ELSE @]
<1>1. (r.ver = 4 /\ r.cfg \in Config) \/ (r.ver = 3 /\ r.cfg \in Old)
  BY DEF Record
<1>2. CASE r.ver = 4 /\ r.cfg \in Config
  <2>1. c = r.cfg
    BY <1>2 DEF Config
  <2>2. QED BY <1>2, <2>1 DEF Migrated, Record
<1>3. CASE r.ver = 3 /\ r.cfg \in Old
  <2>1. c = [r.cfg EXCEPT !.tilt = "none"]
    BY <1>3
  <2>2. c \in Config /\ c.addr = r.cfg.addr /\ c.type = r.cfg.type
    BY <1>3, <2>1 DEF Config
  <2> HIDE DEF c
  <2>3. Migrated(r) = [ver |-> 4, cfg |-> c]
    BY DEF Migrated, c
  <2>4. QED BY <2>2, <2>3 DEF Record
<1>4. QED BY <1>1, <1>2, <1>3

LEMMA StorageFields ==
  ASSUME NEW d \in Storage
  PROVE  /\ d.dev \in [Slots -> Record \cup {NoRecord}]
         /\ d.grp \in [GroupSlots -> Group \cup {NoGroup}]
         /\ d.hub \in HubNames
BY DEF Storage

(* What a boot makes of the flash.                                         *)
LEMMA RestoredSlot ==
  ASSUME NEW d \in Storage, NEW i \in Slots
  PROVE  /\ d.dev[i] = NoRecord => RestoredDevices(d)[i] = NoDevice
                                   /\ MigratedStorage(d).dev[i] = NoRecord
         /\ d.dev[i] # NoRecord =>
              /\ d.dev[i] \in Record
              /\ RestoredDevices(d)[i] = [cfg |-> Migrated(d.dev[i]).cfg, saved |-> TRUE]
              /\ MigratedStorage(d).dev[i] = Migrated(d.dev[i])
<1>1. d.dev \in [Slots -> Record \cup {NoRecord}]
  BY StorageFields
<1>2. MigratedStorage(d).dev =
        [k \in Slots |-> IF d.dev[k] = NoRecord THEN NoRecord ELSE Migrated(d.dev[k])]
  BY DEF MigratedStorage, Storage
<1>3. QED BY <1>1, <1>2 DEF RestoredDevices

LEMMA BootType ==
  ASSUME NEW d \in Storage
  PROVE  /\ RestoredDevices(d) \in [Slots -> Device \cup {NoDevice}]
         /\ RestoredGroups(d, RestoredDevices(d)) \in [GroupSlots -> Group \cup {NoGroup}]
         /\ MigratedStorage(d) \in Storage
         /\ MigratedStorage(d).grp = d.grp /\ MigratedStorage(d).hub = d.hub
<1>1. \A i \in Slots : RestoredDevices(d)[i] \in Device \cup {NoDevice}
  <2> TAKE i \in Slots
  <2>1. CASE d.dev[i] # NoRecord
    <3>1. Migrated(d.dev[i]).cfg \in Config
      BY <2>1, RestoredSlot, MigratedType
    <3>2. RestoredDevices(d)[i] = [cfg |-> Migrated(d.dev[i]).cfg, saved |-> TRUE]
      BY <2>1, RestoredSlot
    <3>3. QED BY <3>1, <3>2 DEF Device
  <2>2. QED BY <2>1, RestoredSlot
<1>2. RestoredGroups(d, RestoredDevices(d)) \in [GroupSlots -> Group \cup {NoGroup}]
  BY StorageFields DEF RestoredGroups
<1>3. [i \in Slots |-> IF d.dev[i] = NoRecord THEN NoRecord ELSE Migrated(d.dev[i])]
        \in [Slots -> Record \cup {NoRecord}]
  BY StorageFields, MigratedType
<1>4. /\ MigratedStorage(d) \in Storage
      /\ MigratedStorage(d).grp = d.grp /\ MigratedStorage(d).hub = d.hub
  BY <1>3 DEF MigratedStorage, Storage
<1>5. QED BY <1>1, <1>2, <1>4 DEF RestoredDevices

LEMMA FlushedType ==
  ASSUME RegTypeOK, NEW S \in SUBSET Keys
  PROVE  Flushed(S) \in Storage
<1>1. /\ nvs.dev \in [Slots -> Record \cup {NoRecord}]
      /\ disk.dev \in [Slots -> Record \cup {NoRecord}]
      /\ nvs.grp \in [GroupSlots -> Group \cup {NoGroup}]
      /\ disk.grp \in [GroupSlots -> Group \cup {NoGroup}]
      /\ nvs.hub \in HubNames /\ disk.hub \in HubNames
  BY StorageFields DEF RegTypeOK
<1>2. [i \in Slots |-> IF <<"dev", i>> \in S THEN nvs.dev[i] ELSE disk.dev[i]]
        \in [Slots -> Record \cup {NoRecord}]
  BY <1>1
<1>3. [g \in GroupSlots |-> IF <<"grp", g>> \in S THEN nvs.grp[g] ELSE disk.grp[g]]
        \in [GroupSlots -> Group \cup {NoGroup}]
  BY <1>1
<1>4. QED BY <1>1, <1>2, <1>3 DEF Flushed, Storage

----------------------------------------------------------------------------
(* A boot, the first one or after a restart, on a storage d.               *)

LEMMA BootKnown ==
  ASSUME NEW d \in Storage, NEW g \in GroupSlots,
         RestoredGroups(d, RestoredDevices(d))[g] # NoGroup
  PROVE  LET grp == RestoredGroups(d, RestoredDevices(d))[g]
             ss == RestoredDevices(d) IN
         /\ grp = d.grp[g] /\ Cardinality(grp.members) >= 2
         /\ \A a \in grp.members : \E i \in At(ss, a) : ss[i].cfg.type # "remote"
<1> DEFINE ss == RestoredDevices(d)
<1>1. RestoredGroups(d, ss)[g] = d.grp[g] /\ ValidMembers(d.grp[g].members, ss)
  BY DEF RestoredGroups
<1> HIDE DEF ss
<1>2. \A a \in d.grp[g].members : First(At(ss, a)) \in At(ss, a)
  BY <1>1, FirstAt DEF ValidMembers
<1>3. QED BY <1>1, <1>2 DEF ValidMembers, DeviceAt, ss

(* The twins of the slots are those of the records they come from.         *)
LEMMA BootTwins ==
  ASSUME NEW d \in Storage, ~TwinRecords(d)
  PROVE  ~Twins(RestoredDevices(d))
<1> DEFINE ss == RestoredDevices(d)
<1>1. \A i \in Slots : ss[i] # NoDevice =>
        /\ d.dev[i] # NoRecord
        /\ ss[i].cfg.addr = d.dev[i].cfg.addr /\ ss[i].cfg.type = d.dev[i].cfg.type
  <2> TAKE i \in Slots
  <2> HAVE ss[i] # NoDevice
  <2>1. d.dev[i] # NoRecord
    BY RestoredSlot
  <2>2. ss[i] = [cfg |-> Migrated(d.dev[i]).cfg, saved |-> TRUE] /\ d.dev[i] \in Record
    BY <2>1, RestoredSlot
  <2>3. ss[i].cfg = Migrated(d.dev[i]).cfg
    BY <2>2
  <2>4. QED BY <2>1, <2>2, <2>3, MigratedType
<1> HIDE DEF ss
<1>2. ~Twins(ss)
  BY <1>1 DEF Twins, TwinRecords
<1>3. QED BY <1>2 DEF ss

(* The records of the devices that are saved hold their configurations.    *)
LEMMA BootMatches ==
  ASSUME NEW d \in Storage, NEW i \in Slots
  PROVE  MigratedStorage(d).dev[i] =
           IF RestoredDevices(d)[i] # NoDevice /\ RestoredDevices(d)[i].saved
           THEN [ver |-> 4, cfg |-> RestoredDevices(d)[i].cfg] ELSE NoRecord
<1>1. CASE d.dev[i] = NoRecord
  BY <1>1, RestoredSlot
<1>2. CASE d.dev[i] # NoRecord
  <2>1. /\ d.dev[i] \in Record /\ MigratedStorage(d).dev[i] = Migrated(d.dev[i])
        /\ RestoredDevices(d)[i] = [cfg |-> Migrated(d.dev[i]).cfg, saved |-> TRUE]
    BY <1>2, RestoredSlot
  <2>2. RestoredDevices(d)[i].cfg = Migrated(d.dev[i]).cfg /\ RestoredDevices(d)[i].saved
    BY <2>1
  <2>3. RestoredDevices(d)[i] \in Device
    BY <2>1, MigratedType DEF Device
  <2>4. RestoredDevices(d)[i] # NoDevice
    BY <2>3, RegistryAssumption
  <2>5. Migrated(d.dev[i]) = [ver |-> 4, cfg |-> Migrated(d.dev[i]).cfg]
    BY <2>1, MigratedType
  <2>6. QED BY <2>1, <2>2, <2>4, <2>5
<1>3. QED BY <1>1, <1>2

LEMMA InitInv == RegInit => RegInv
<1> SUFFICES ASSUME RegInit PROVE RegInv
  OBVIOUS
<1>1. PICK d \in Images :
        /\ slots = RestoredDevices(d)
        /\ groups = RestoredGroups(d, RestoredDevices(d))
        /\ hub = d.hub /\ disk = d /\ nvs = MigratedStorage(d) /\ torn = FALSE
        /\ doubled = (Twins(slots) \/ GroupTwins(groups))
  BY DEF RegInit
<1>2. d \in Storage /\ ~TwinRecords(d)
  BY ImagesAssumption DEF TwinRecords
<1>3. RegTypeOK
  BY <1>1, <1>2, BootType, StorageFields DEF RegTypeOK
<1>4. StoreMatches
  BY <1>1, <1>2, BootMatches, BootKnown, BootType DEF StoreMatches
<1>5. NoTwins
  BY <1>1, <1>2, BootTwins DEF NoTwins
<1>6. MembersKnown
  BY <1>1, <1>2, BootKnown DEF MembersKnown
<1>7. QED BY <1>3, <1>4, <1>5, <1>6 DEF RegInv

(* A record is that of the device in its slot.                             *)
LEMMA SavedRecord ==
  ASSUME StoreMatches, NEW i \in Slots, nvs.dev[i] # NoRecord
  PROVE  slots[i] # NoDevice /\ nvs.dev[i].cfg = slots[i].cfg
<1>1. slots[i] # NoDevice /\ nvs.dev[i] = [ver |-> 4, cfg |-> slots[i].cfg]
  BY DEF StoreMatches
<1>2. [ver |-> 4, cfg |-> slots[i].cfg].cfg = slots[i].cfg
  OBVIOUS
<1>3. QED BY <1>1, <1>2

LEMMA RestartInv ==
  ASSUME RegInv, NEW S \in SUBSET Keys, Restart(S)
  PROVE  RegInv'
<1> DEFINE d == Flushed(S)
<1>1. d \in Storage
  BY FlushedType DEF RegInv
<1>2. /\ slots' = RestoredDevices(d)
      /\ groups' = RestoredGroups(d, RestoredDevices(d))
      /\ hub' = d.hub /\ disk' = d /\ nvs' = MigratedStorage(d)
  BY DEF Restart, Boot
<1>3. torn' = (torn \/ d \notin {nvs, disk})
  BY DEF Restart
<1> HIDE DEF d
<1>4. RegTypeOK'
  <2>1. torn' \in BOOLEAN
    BY <1>3 DEF RegInv, RegTypeOK
  <2>3. doubled' \in BOOLEAN
    BY DEF Restart
  <2>2. QED BY <1>1, <1>2, <2>1, <2>3, BootType, StorageFields DEF RegTypeOK
<1>5. StoreMatches'
  BY <1>1, <1>2, BootMatches, BootKnown, BootType DEF StoreMatches
<1>6. NoTwins'
  <2>1. SUFFICES ASSUME ~torn' PROVE ~TwinRecords(d)
    BY <1>1, <1>2, BootTwins DEF NoTwins
  <2>2. ~torn /\ d \in {nvs, disk}
    BY <1>3, <2>1
  <2>3. ~Twins(slots) /\ ~TwinRecords(disk)
    BY <2>2 DEF RegInv, NoTwins
  <2>4. ~TwinRecords(nvs)
    <3>1. \A i \in Slots : nvs.dev[i] # NoRecord =>
            slots[i] # NoDevice /\ nvs.dev[i].cfg = slots[i].cfg
      BY SavedRecord DEF RegInv
    <3>2. QED BY <2>3, <3>1 DEF Twins, TwinRecords
  <2>5. QED BY <2>2, <2>3, <2>4
<1>7. MembersKnown'
  BY <1>1, <1>2, BootKnown DEF MembersKnown, At
<1>8. QED BY <1>4, <1>5, <1>6, <1>7 DEF RegInv

----------------------------------------------------------------------------
(* The operations on devices.                                              *)

(* A slot of the array is given a new device, and its record.              *)
LEMMA SlotUpdate ==
  ASSUME RegTypeOK, NEW i \in Slots, NEW dev \in Device \cup {NoDevice},
         slots' = [slots EXCEPT ![i] = dev]
  PROVE  /\ slots' \in [Slots -> Device \cup {NoDevice}]
         /\ slots'[i] = dev
         /\ \A j \in Slots : j # i => slots'[j] = slots[j]
BY DEF RegTypeOK

LEMMA RecordUpdate ==
  ASSUME RegTypeOK, NEW i \in Slots, NEW r \in Record \cup {NoRecord},
         NEW grp \in [GroupSlots -> Group \cup {NoGroup}],
         nvs' = [nvs EXCEPT !.dev[i] = r, !.grp = grp]
  PROVE  /\ nvs' \in Storage /\ nvs'.grp = grp /\ nvs'.hub = nvs.hub
         /\ nvs'.dev[i] = r
         /\ \A j \in Slots : j # i => nvs'.dev[j] = nvs.dev[j]
<1>1. nvs \in Storage /\ nvs.dev \in [Slots -> Record \cup {NoRecord}]
  BY StorageFields DEF RegTypeOK
<1>2. nvs' = [nvs EXCEPT !.dev = [nvs.dev EXCEPT ![i] = r], !.grp = grp]
  BY <1>1 DEF Storage
<1>3. [nvs.dev EXCEPT ![i] = r] \in [Slots -> Record \cup {NoRecord}]
  BY <1>1
<1>4. nvs'.dev = [nvs.dev EXCEPT ![i] = r] /\ nvs'.grp = grp /\ nvs'.hub = nvs.hub
  BY <1>1, <1>2 DEF Storage
<1>5. nvs' \in Storage
  BY <1>1, <1>2, <1>3 DEF Storage
<1>6. QED BY <1>1, <1>4, <1>5

(* No group loses a member when a slot gets a device that keeps its        *)
(* address and type, or when the slot was free.                            *)
LEMMA KnownStays ==
  ASSUME RegTypeOK, MembersKnown, groups' = groups, NEW i \in Slots,
         \A j \in Slots : j # i => slots'[j] = slots[j],
         slots[i] = NoDevice \/ /\ slots'[i] # NoDevice
                                /\ slots'[i].cfg.addr = slots[i].cfg.addr
                                /\ slots'[i].cfg.type = slots[i].cfg.type
  PROVE  MembersKnown'
<1>1. \A a : \A j \in At(slots, a) :
        j \in At(slots', a) /\ slots'[j].cfg.type = slots[j].cfg.type
  BY DEF At
<1>2. SUFFICES ASSUME NEW g \in GroupSlots, groups[g] # NoGroup
               PROVE  /\ Cardinality(groups[g].members) >= 2
                      /\ \A a \in groups[g].members :
                           \E j \in At(slots', a) : slots'[j].cfg.type # "remote"
  BY DEF MembersKnown
<1>3. QED BY <1>1, <1>2 DEF MembersKnown

LEMMA UpsertInv ==
  ASSUME RegInv, NEW c \in Config, Upsert(c)
  PROVE  RegInv'
<1> DEFINE i == SlotFor(c)
           dev == [cfg |-> c, saved |-> TRUE]
           r == [ver |-> 4, cfg |-> c]
<1>1. /\ i \in Slots
      /\ \/ i \in Matches(slots, c.addr, c.type)
         \/ slots[i] = NoDevice /\ Matches(slots, c.addr, c.type) = {}
  BY SlotForIs DEF Upsert
<1>2. /\ slots' = [slots EXCEPT ![i] = dev] /\ nvs' = [nvs EXCEPT !.dev[i] = r]
      /\ groups' = groups /\ hub' = hub /\ disk' = disk /\ torn' = torn /\ doubled' = doubled
  BY DEF Upsert
<1>3. dev \in Device /\ dev # NoDevice /\ dev.saved /\ dev.cfg = c /\ r \in Record
  <2>1. dev \in Device /\ r \in Record
    BY DEF Device, Record
  <2>2. QED BY <2>1, RegistryAssumption
<1> HIDE DEF i, dev
<1>4. /\ slots' \in [Slots -> Device \cup {NoDevice}] /\ slots'[i] = dev
      /\ \A j \in Slots : j # i => slots'[j] = slots[j]
  BY <1>1, <1>2, <1>3, SlotUpdate DEF RegInv
<1>5. /\ nvs' \in Storage /\ nvs'.grp = nvs.grp /\ nvs'.hub = nvs.hub
      /\ nvs'.dev[i] = r /\ \A j \in Slots : j # i => nvs'.dev[j] = nvs.dev[j]
  <2>1. nvs \in Storage /\ nvs.grp \in [GroupSlots -> Group \cup {NoGroup}]
    BY StorageFields DEF RegInv, RegTypeOK
  <2>2. nvs' = [nvs EXCEPT !.dev[i] = r, !.grp = nvs.grp]
    BY <1>2, <2>1 DEF Storage
  <2> HIDE DEF r
  <2>3. QED BY <1>1, <1>3, <2>1, <2>2, RecordUpdate DEF RegInv
<1>6. RegTypeOK'
  BY <1>2, <1>4, <1>5 DEF RegInv, RegTypeOK
<1>7. StoreMatches'
  <2>1. \A j \in Slots : j # i =>
          nvs'.dev[j] = IF slots'[j] # NoDevice /\ slots'[j].saved
                        THEN [ver |-> 4, cfg |-> slots'[j].cfg] ELSE NoRecord
    BY <1>4, <1>5 DEF RegInv, StoreMatches
  <2>2. nvs'.dev[i] = IF slots'[i] # NoDevice /\ slots'[i].saved
                      THEN [ver |-> 4, cfg |-> slots'[i].cfg] ELSE NoRecord
    BY <1>1, <1>3, <1>4, <1>5
  <2>3. \A g \in GroupSlots : groups'[g] # NoGroup => nvs'.grp[g] = groups'[g]
    BY <1>2, <1>5 DEF RegInv, StoreMatches
  <2>4. nvs'.hub = hub'
    BY <1>2, <1>5 DEF RegInv, StoreMatches
  <2>5. QED BY <2>1, <2>2, <2>3, <2>4 DEF StoreMatches
<1>8. NoTwins'
  <2>1. SUFFICES ASSUME ~torn PROVE ~Twins(slots') /\ ~TwinRecords(disk)
    BY <1>2 DEF NoTwins
  <2>2. ~Twins(slots) /\ ~TwinRecords(disk)
    BY <2>1 DEF RegInv, NoTwins
  <2>3. \A j \in Slots \ {i} :
          slots[j] # NoDevice => slots[j].cfg.addr # c.addr \/ slots[j].cfg.type # c.type
    BY <1>1, <2>2 DEF Twins, Matches, At
  <2>4. ~Twins(slots')
    BY <1>1, <1>3, <1>4, <2>2, <2>3 DEF Twins
  <2>5. QED BY <2>2, <2>4
<1>9. MembersKnown'
  <2>1. slots[i] = NoDevice \/ /\ slots'[i] # NoDevice
                               /\ slots'[i].cfg.addr = slots[i].cfg.addr
                               /\ slots'[i].cfg.type = slots[i].cfg.type
    BY <1>1, <1>3, <1>4 DEF Matches, At
  <2>2. QED BY <1>1, <1>2, <1>4, <2>1, KnownStays DEF RegInv
<1>10. QED BY <1>6, <1>7, <1>8, <1>9 DEF RegInv

(* track_remote_ takes a free slot and saves nothing.                      *)
LEMMA TrackInv ==
  ASSUME RegInv, NEW a \in Addrs, TrackRemote(a)
  PROVE  RegInv'
<1> DEFINE i == First(Free(slots))
           dev == [cfg |-> Discovered(a), saved |-> FALSE]
<1>1. i \in Slots /\ slots[i] = NoDevice
  <2>1. i \in Free(slots)
    BY SlotsAreNat, FirstIsIn DEF TrackRemote, Free
  <2>2. QED BY <2>1 DEF Free
<1>2. /\ slots' = [slots EXCEPT ![i] = dev] /\ Matches(slots, a, "remote") = {}
      /\ groups' = groups /\ hub' = hub /\ disk' = disk /\ nvs' = nvs /\ torn' = torn /\ doubled' = doubled
  BY DEF TrackRemote
<1>3. dev \in Device /\ ~dev.saved /\ dev.cfg.addr = a /\ dev.cfg.type = "remote"
  <2>1. (CHOOSE r \in Remotes : TRUE) \in Remotes
    BY RegistryAssumption
  <2>2. /\ Discovered(a) \in Config /\ Discovered(a).addr = a
        /\ Discovered(a).type = "remote"
    BY <2>1, RegistryAssumption DEF Discovered, Config, Types
  <2>3. QED BY <2>2 DEF Device
<1> HIDE DEF i, dev
<1>4. /\ slots' \in [Slots -> Device \cup {NoDevice}] /\ slots'[i] = dev
      /\ \A j \in Slots : j # i => slots'[j] = slots[j]
  BY <1>1, <1>2, <1>3, SlotUpdate DEF RegInv
<1>5. RegTypeOK'
  BY <1>2, <1>4 DEF RegInv, RegTypeOK
<1>6. StoreMatches'
  <2>1. \A j \in Slots : j # i =>
          nvs'.dev[j] = IF slots'[j] # NoDevice /\ slots'[j].saved
                        THEN [ver |-> 4, cfg |-> slots'[j].cfg] ELSE NoRecord
    BY <1>2, <1>4 DEF RegInv, StoreMatches
  <2>2. nvs'.dev[i] = NoRecord /\ ~slots'[i].saved
    BY <1>1, <1>2, <1>3, <1>4 DEF RegInv, StoreMatches
  <2>3. \A g \in GroupSlots : groups'[g] # NoGroup => nvs'.grp[g] = groups'[g]
    BY <1>2 DEF RegInv, StoreMatches
  <2>4. nvs'.hub = hub'
    BY <1>2 DEF RegInv, StoreMatches
  <2>5. QED BY <2>1, <2>2, <2>3, <2>4 DEF StoreMatches
<1>7. NoTwins'
  <2>1. SUFFICES ASSUME ~torn PROVE ~Twins(slots') /\ ~TwinRecords(disk)
    BY <1>2 DEF NoTwins
  <2>2. ~Twins(slots) /\ ~TwinRecords(disk)
    BY <2>1 DEF RegInv, NoTwins
  <2>3. \A j \in Slots :
          slots[j] # NoDevice => slots[j].cfg.addr # a \/ slots[j].cfg.type # "remote"
    BY <1>2 DEF Matches, At
  <2>4. ~Twins(slots')
    BY <1>1, <1>3, <1>4, <2>2, <2>3 DEF Twins
  <2>5. QED BY <2>2, <2>4
<1>8. MembersKnown'
  BY <1>1, <1>2, <1>4, KnownStays DEF RegInv
<1>9. QED BY <1>5, <1>6, <1>7, <1>8 DEF RegInv

(* A pruned group has the members it had but for the device, and at least  *)
(* two of them.                                                            *)
LEMMA PrunedType ==
  ASSUME NEW grp \in Group \cup {NoGroup}, NEW a, grp # NoGroup => Cardinality(grp.members) >= 2
  PROVE  /\ PruneGroup(grp, a) \in Group \cup {NoGroup}
         /\ PruneGroup(grp, a) # NoGroup =>
              /\ grp # NoGroup
              /\ PruneGroup(grp, a).members \subseteq grp.members \ {a}
              /\ Cardinality(PruneGroup(grp, a).members) >= 2
<1>1. CASE grp = NoGroup
  BY <1>1 DEF PruneGroup
<1>2. CASE grp # NoGroup /\ a \notin grp.members
  BY <1>2 DEF PruneGroup
<1>3. CASE grp # NoGroup /\ a \in grp.members
  <2> DEFINE rest == grp.members \ {a}
  <2>1. grp \in Group /\ grp.members \in SUBSET Addrs
    BY <1>3 DEF Group
  <2>2. Cardinality(rest) \in Nat
    <3>1. IsFiniteSet(rest)
      BY <2>1, RegistryAssumption, FS_Subset
    <3>2. QED BY <3>1, FS_CardinalityType
  <2>3. PruneGroup(grp, a) = IF Cardinality(rest) < 2 THEN NoGroup
                             ELSE [grp EXCEPT !.members = rest]
    BY <1>3, <2>1 DEF PruneGroup, Group
  <2>4. [grp EXCEPT !.members = rest] \in Group /\ [grp EXCEPT !.members = rest].members = rest
    BY <2>1 DEF Group
  <2> HIDE DEF rest
  <2>5. PruneGroup(grp, a) \in Group \cup {NoGroup}
    BY <2>3, <2>4
  <2>6. PruneGroup(grp, a) # NoGroup =>
          PruneGroup(grp, a).members = rest /\ Cardinality(rest) >= 2
    BY <2>2, <2>3, <2>4
  <2>7. QED BY <1>3, <2>5, <2>6 DEF rest
<1>4. QED BY <1>1, <1>2, <1>3

LEMMA RemoveDeviceInv ==
  ASSUME RegInv, NEW a \in Addrs, NEW t \in Types, RemoveDevice(a, t)
  PROVE  RegInv'
<1> DEFINE i == First(Matches(slots, a, t))
           recs == PrunedRecords(a)
<1>1. i \in Slots /\ slots[i] # NoDevice /\ slots[i].cfg.addr = a
  <2>1. i \in Matches(slots, a, t)
    BY FirstMatches DEF RemoveDevice
  <2>2. QED BY <2>1 DEF Matches, At
<1>2. /\ slots' = [slots EXCEPT ![i] = NoDevice]
      /\ nvs' = [nvs EXCEPT !.dev[i] = NoRecord, !.grp = recs]
      /\ groups' = PrunedGroups(a) /\ hub' = hub /\ disk' = disk /\ torn' = torn /\ doubled' = doubled
  BY DEF RemoveDevice
<1> HIDE DEF i
<1>3. \A g \in GroupSlots :
        /\ groups[g] \in Group \cup {NoGroup} /\ nvs.grp[g] \in Group \cup {NoGroup}
        /\ groups[g] # NoGroup => Cardinality(groups[g].members) >= 2 /\ nvs.grp[g] = groups[g]
  BY StorageFields DEF RegInv, RegTypeOK, StoreMatches, MembersKnown
<1>4. /\ groups' \in [GroupSlots -> Group \cup {NoGroup}]
      /\ \A g \in GroupSlots :
           /\ groups'[g] = PruneGroup(groups[g], a)
           /\ groups'[g] # NoGroup =>
                /\ groups[g] # NoGroup
                /\ groups'[g].members \subseteq groups[g].members \ {a}
                /\ Cardinality(groups'[g].members) >= 2
  <2>1. \A g \in GroupSlots :
          /\ PruneGroup(groups[g], a) \in Group \cup {NoGroup}
          /\ PruneGroup(groups[g], a) # NoGroup =>
               /\ groups[g] # NoGroup
               /\ PruneGroup(groups[g], a).members \subseteq groups[g].members \ {a}
               /\ Cardinality(PruneGroup(groups[g], a).members) >= 2
    BY <1>3, PrunedType
  <2>2. groups' = [g \in GroupSlots |-> PruneGroup(groups[g], a)]
    BY <1>2 DEF PrunedGroups
  <2>3. QED BY <2>1, <2>2
<1>5. /\ recs \in [GroupSlots -> Group \cup {NoGroup}]
      /\ \A g \in GroupSlots : groups'[g] # NoGroup => recs[g] = groups'[g]
  <2>1. \A g \in GroupSlots : PrunedGroups(a)[g] = groups'[g]
    BY <1>2
  <2>2. recs = [g \in GroupSlots |-> IF groups'[g] # groups[g] THEN groups'[g] ELSE nvs.grp[g]]
    BY <2>1 DEF PrunedRecords
  <2>3. QED BY <1>3, <1>4, <2>2
<1> HIDE DEF recs
<1>6. /\ slots' \in [Slots -> Device \cup {NoDevice}] /\ slots'[i] = NoDevice
      /\ \A j \in Slots : j # i => slots'[j] = slots[j]
  BY <1>1, <1>2, SlotUpdate DEF RegInv
<1>7. /\ nvs' \in Storage /\ nvs'.grp = recs /\ nvs'.hub = nvs.hub
      /\ nvs'.dev[i] = NoRecord /\ \A j \in Slots : j # i => nvs'.dev[j] = nvs.dev[j]
  BY <1>1, <1>2, <1>5, RecordUpdate DEF RegInv
<1>8. RegTypeOK'
  BY <1>2, <1>4, <1>6, <1>7 DEF RegInv, RegTypeOK
<1>9. StoreMatches'
  <2>1. \A j \in Slots : j # i =>
          nvs'.dev[j] = IF slots'[j] # NoDevice /\ slots'[j].saved
                        THEN [ver |-> 4, cfg |-> slots'[j].cfg] ELSE NoRecord
    BY <1>6, <1>7 DEF RegInv, StoreMatches
  <2>2. nvs'.hub = hub'
    BY <1>2, <1>7 DEF RegInv, StoreMatches
  <2>3. \A g \in GroupSlots : groups'[g] # NoGroup => nvs'.grp[g] = groups'[g]
    BY <1>5, <1>7
  <2>4. QED BY <1>6, <1>7, <2>1, <2>2, <2>3 DEF StoreMatches
<1>10. NoTwins'
  <2>1. Twins(slots') => Twins(slots)
    BY <1>6 DEF Twins
  <2>2. QED BY <1>2, <2>1 DEF RegInv, NoTwins
<1>11. MembersKnown'
  <2>1. SUFFICES ASSUME NEW g \in GroupSlots, groups'[g] # NoGroup,
                        NEW b \in groups'[g].members
                 PROVE  \E j \in At(slots', b) : slots'[j].cfg.type # "remote"
    BY <1>4 DEF MembersKnown
  <2>2. b # a /\ b \in groups[g].members /\ groups[g] # NoGroup
    BY <1>4, <2>1
  <2>3. PICK j \in At(slots, b) : slots[j].cfg.type # "remote"
    BY <2>2 DEF RegInv, MembersKnown
  <2>4. j \in Slots /\ j # i /\ slots[j] # NoDevice /\ slots[j].cfg.addr = b
    BY <1>1, <2>2, <2>3 DEF At
  <2>5. QED BY <1>6, <2>3, <2>4 DEF At
<1>12. QED BY <1>8, <1>9, <1>10, <1>11 DEF RegInv

----------------------------------------------------------------------------
(* The operations on groups.                                               *)

(* A group slot is given a group of known devices, or cleared.             *)
LEMMA GroupUpdate ==
  ASSUME RegInv, NEW k \in GroupSlots, NEW grp \in Group \cup {NoGroup},
         groups' = [groups EXCEPT ![k] = grp], nvs' = [nvs EXCEPT !.grp[k] = grp],
         UNCHANGED <<slots, hub, disk, torn, doubled>>,
         grp # NoGroup =>
           /\ Cardinality(grp.members) >= 2
           /\ \A a \in grp.members : \E i \in At(slots, a) : slots[i].cfg.type # "remote"
  PROVE  RegInv'
<1>1. /\ nvs \in Storage /\ nvs.grp \in [GroupSlots -> Group \cup {NoGroup}]
      /\ groups \in [GroupSlots -> Group \cup {NoGroup}]
  BY StorageFields DEF RegInv, RegTypeOK
<1>2. /\ nvs' \in Storage /\ nvs'.dev = nvs.dev /\ nvs'.hub = nvs.hub
      /\ nvs'.grp = [nvs.grp EXCEPT ![k] = grp]
  <2>1. nvs' = [nvs EXCEPT !.grp = [nvs.grp EXCEPT ![k] = grp]]
    BY <1>1 DEF Storage
  <2>2. [nvs.grp EXCEPT ![k] = grp] \in [GroupSlots -> Group \cup {NoGroup}]
    BY <1>1
  <2>3. QED BY <1>1, <2>1, <2>2 DEF Storage
<1>3. /\ groups' \in [GroupSlots -> Group \cup {NoGroup}] /\ groups'[k] = grp
      /\ \A g \in GroupSlots : g # k => groups'[g] = groups[g]
  BY <1>1
<1>4. RegTypeOK'
  BY <1>2, <1>3 DEF RegInv, RegTypeOK
<1>5. StoreMatches'
  BY <1>1, <1>2, <1>3 DEF RegInv, StoreMatches
<1>6. NoTwins'
  BY DEF RegInv, NoTwins
<1>7. MembersKnown'
  BY <1>3 DEF RegInv, MembersKnown, At
<1>8. QED BY <1>4, <1>5, <1>6, <1>7 DEF RegInv

LEMMA StoreGroupInv ==
  ASSUME RegInv, NEW id \in GroupIds, NEW M \in SUBSET Addrs, StoreGroup(id, M)
  PROVE  RegInv'
<1> DEFINE grp == [id |-> id, members |-> M]
           k == GroupSlotFor(id)
<1>1. k \in GroupSlots
  BY GroupSlotForIs DEF StoreGroup
<1>2. grp \in Group /\ grp.members = M
  BY DEF Group
<1>3. /\ Cardinality(M) >= 2
      /\ \A a \in M : \E i \in At(slots, a) : slots[i].cfg.type # "remote"
  <2>1. ValidMembers(M, slots)
    BY DEF StoreGroup
  <2>2. \A a \in M : First(At(slots, a)) \in At(slots, a)
    BY <2>1, FirstAt DEF ValidMembers
  <2>3. QED BY <2>1, <2>2 DEF ValidMembers, DeviceAt
<1>4. /\ groups' = [groups EXCEPT ![k] = grp] /\ nvs' = [nvs EXCEPT !.grp[k] = grp]
      /\ UNCHANGED <<slots, hub, disk, torn, doubled>>
  BY DEF StoreGroup
<1> HIDE DEF grp, k
<1>5. QED BY <1>1, <1>2, <1>3, <1>4, GroupUpdate

LEMMA UpsertGroupInv ==
  ASSUME RegInv, NEW id \in GroupIds, NEW ids \in Seq(Addrs), UpsertGroup(id, ids)
  PROVE  RegInv'
<1>1. MembersOf(ids) \in SUBSET Addrs
  BY DEF MembersOf
<1>2. QED BY <1>1, StoreGroupInv DEF UpsertGroup

LEMMA RemoveGroupInv ==
  ASSUME RegInv, NEW id \in GroupIds, RemoveGroup(id)
  PROVE  RegInv'
<1> DEFINE k == First(GroupsWith(id))
<1>1. k \in GroupSlots
  BY SlotsAreNat, FirstIsIn DEF RemoveGroup, GroupsWith
<1>2. /\ groups' = [groups EXCEPT ![k] = NoGroup] /\ nvs' = [nvs EXCEPT !.grp[k] = NoGroup]
      /\ UNCHANGED <<slots, hub, disk, torn, doubled>>
  BY DEF RemoveGroup
<1> HIDE DEF k
<1>3. QED BY <1>1, <1>2, GroupUpdate

LEMMA SetHubNameInv ==
  ASSUME RegInv, NEW n \in HubNames, SetHubName(n)
  PROVE  RegInv'
<1>1. /\ hub' = n /\ nvs' = [nvs EXCEPT !.hub = n]
      /\ UNCHANGED <<slots, groups, disk, torn, doubled>>
  BY DEF SetHubName
<1>2. nvs \in Storage
  BY DEF RegInv, RegTypeOK
<1>3. nvs' \in Storage /\ nvs'.dev = nvs.dev /\ nvs'.grp = nvs.grp /\ nvs'.hub = n
  BY <1>1, <1>2 DEF Storage
<1>4. RegTypeOK' /\ StoreMatches'
  BY <1>1, <1>3 DEF RegInv, RegTypeOK, StoreMatches
<1>5. NoTwins' /\ MembersKnown'
  BY <1>1 DEF RegInv, NoTwins, MembersKnown
<1>6. QED BY <1>4, <1>5 DEF RegInv

LEMMA FlushInv ==
  ASSUME RegInv, Flush
  PROVE  RegInv'
<1>1. disk' = nvs /\ UNCHANGED <<slots, groups, hub, nvs, torn, doubled>>
  BY DEF Flush
<1>2. RegTypeOK' /\ StoreMatches' /\ MembersKnown'
  BY <1>1 DEF RegInv, RegTypeOK, StoreMatches, MembersKnown
<1>3. NoTwins'
  <2>1. \A i \in Slots : nvs.dev[i] # NoRecord =>
          slots[i] # NoDevice /\ nvs.dev[i].cfg = slots[i].cfg
    BY SavedRecord DEF RegInv
  <2>2. ~Twins(slots) => ~TwinRecords(nvs)
    BY <2>1 DEF Twins, TwinRecords
  <2>3. QED BY <1>1, <2>2 DEF RegInv, NoTwins
<1>4. QED BY <1>2, <1>3 DEF RegInv

----------------------------------------------------------------------------
LEMMA StepInv == RegInv /\ [RegNext]_regVars => RegInv'
<1> SUFFICES ASSUME RegInv, [RegNext]_regVars PROVE RegInv'
  OBVIOUS
<1>1. CASE \E c \in Config : Upsert(c)
  BY <1>1, UpsertInv
<1>2. CASE \E a \in Addrs, t \in Types : RemoveDevice(a, t)
  BY <1>2, RemoveDeviceInv
<1>3. CASE \E id \in GroupIds, ids \in Seq(Addrs) : UpsertGroup(id, ids)
  BY <1>3, UpsertGroupInv
<1>4. CASE \E id \in GroupIds : RemoveGroup(id)
  BY <1>4, RemoveGroupInv
<1>5. CASE \E a \in Addrs : TrackRemote(a)
  BY <1>5, TrackInv
<1>6. CASE \E n \in HubNames : SetHubName(n)
  BY <1>6, SetHubNameInv
<1>7. CASE Flush
  BY <1>7, FlushInv
<1>8. CASE \E S \in SUBSET Keys : Restart(S)
  BY <1>8, RestartInv
<1>9. CASE UNCHANGED regVars
  BY <1>9 DEF regVars, RegInv, RegTypeOK, StoreMatches, NoTwins, MembersKnown
<1>10. QED
  BY <1>1, <1>2, <1>3, <1>4, <1>5, <1>6, <1>7, <1>8, <1>9 DEF RegNext

(* The invariant of the registry: the four theorems below are its parts.   *)
THEOREM RegistryInvariant == RegSpec => []RegInv
<1>1. QED BY InitInv, StepInv, PTL DEF RegSpec

(* Types: no poll interval of version 3 is ever taken for a tilt duration, *)
(* neither in a slot nor in a record that is saved again                   *)
(* (device_registry.cpp migrate_device_config_, restore_all).              *)
THEOREM RegistryTypes == RegSpec => []RegTypeOK
<1>1. RegInv => RegTypeOK
  BY DEF RegInv
<1>2. QED BY <1>1, RegistryInvariant, PTL

(* What is saved is what the registry holds, after every operation and     *)
(* every restart (persist, remove, prune_device_from_groups_, restore_all).*)
THEOREM RegistryStoreMatches == RegSpec => []StoreMatches
<1>1. RegInv => StoreMatches
  BY DEF RegInv
<1>2. QED BY <1>1, RegistryInvariant, PTL

(* No two slots hold the same device unless a restart found a part of what *)
(* had been saved (upsert, track_remote_, restore_all).                    *)
THEOREM RegistryTwins == RegSpec => []TwinsNeedTornWrite
<1>1. RegInv => TwinsNeedTornWrite
  BY DEF RegInv, NoTwins, TwinsNeedTornWrite
<1>2. QED BY <1>1, RegistryInvariant, PTL

(* Every group in use has at least two members, known devices that can be  *)
(* commanded (upsert_group, validate_group_, prune_device_from_groups_).   *)
THEOREM RegistryMembersKnown == RegSpec => []MembersKnown
<1>1. RegInv => MembersKnown
  BY DEF RegInv
<1>2. QED BY <1>1, RegistryInvariant, PTL

----------------------------------------------------------------------------
(* What the operations of the registry do to the slots and the groups.     *)

(* Slot i is given a device that it held already, or that no slot held.    *)
Placed(i, dev) ==
  /\ i \in Slots /\ dev \in Device
  /\ slots' \in [Slots -> Device \cup {NoDevice}]
  /\ slots'[i] = dev /\ \A j \in Slots : j # i => slots'[j] = slots[j]
  /\ \/ i \in Matches(slots, dev.cfg.addr, dev.cfg.type)
     \/ slots[i] = NoDevice /\ Matches(slots, dev.cfg.addr, dev.cfg.type) = {}
  /\ groups' = groups /\ hub' = hub /\ doubled' = doubled

(* Slot i loses the device a of type t, which leaves every group.          *)
Emptied(i, a, t) ==
  /\ i \in Slots /\ slots[i] \in Device
  /\ slots[i].cfg.addr = a /\ slots[i].cfg.type = t
  /\ slots' \in [Slots -> Device \cup {NoDevice}]
  /\ slots'[i] = NoDevice /\ \A j \in Slots : j # i => slots'[j] = slots[j]
  /\ groups' = PrunedGroups(a)
  /\ hub' = hub /\ doubled' = doubled

(* Group slot k is given what is left of the group id, if anything.        *)
Grouped(k, id, grp) ==
  /\ k \in GroupSlots /\ id \in GroupIds /\ grp \in Group \cup {NoGroup}
  /\ groups' \in [GroupSlots -> Group \cup {NoGroup}]
  /\ groups'[k] = grp /\ \A g \in GroupSlots : g # k => groups'[g] = groups[g]
  /\ k \in GroupsWith(id) \/ (groups[k] = NoGroup /\ GroupsWith(id) = {})
  /\ grp # NoGroup => grp.id = id /\ ValidMembers(grp.members, slots)
  /\ slots' = slots /\ hub' = hub /\ doubled' = doubled

LEMMA UpsertPlaces ==
  ASSUME RegInv, NEW c \in Config, Upsert(c)
  PROVE  Placed(SlotFor(c), [cfg |-> c, saved |-> TRUE])
<1> DEFINE i == SlotFor(c)
           dev == [cfg |-> c, saved |-> TRUE]
<1>1. /\ i \in Slots
      /\ \/ i \in Matches(slots, c.addr, c.type)
         \/ slots[i] = NoDevice /\ Matches(slots, c.addr, c.type) = {}
  BY SlotForIs DEF Upsert
<1>2. /\ slots' = [slots EXCEPT ![i] = dev]
      /\ groups' = groups /\ hub' = hub /\ doubled' = doubled
  BY DEF Upsert
<1>3. dev \in Device /\ dev.cfg = c
  BY DEF Device
<1> HIDE DEF i, dev
<1>4. /\ slots' \in [Slots -> Device \cup {NoDevice}] /\ slots'[i] = dev
      /\ \A j \in Slots : j # i => slots'[j] = slots[j]
  BY <1>1, <1>2, <1>3, SlotUpdate DEF RegInv
<1>5. Placed(i, dev)
  BY <1>1, <1>2, <1>3, <1>4 DEF Placed
<1>6. QED BY <1>5 DEF i, dev

LEMMA DiscoveredType ==
  ASSUME NEW a \in Addrs
  PROVE  Discovered(a) \in Config /\ Discovered(a).addr = a /\ Discovered(a).type = "remote"
<1>1. (CHOOSE r \in Remotes : TRUE) \in Remotes
  BY RegistryAssumption
<1>2. QED BY <1>1, RegistryAssumption DEF Discovered, Config, Types

LEMMA TrackPlaces ==
  ASSUME RegInv, NEW a \in Addrs, TrackRemote(a)
  PROVE  /\ Placed(First(Free(slots)), [cfg |-> Discovered(a), saved |-> FALSE])
         /\ Matches(slots, a, "remote") = {}
<1> DEFINE i == First(Free(slots))
           dev == [cfg |-> Discovered(a), saved |-> FALSE]
<1>1. i \in Slots /\ slots[i] = NoDevice
  <2>1. i \in Free(slots)
    BY SlotsAreNat, FirstIsIn DEF TrackRemote, Free
  <2>2. QED BY <2>1 DEF Free
<1>2. /\ slots' = [slots EXCEPT ![i] = dev] /\ Matches(slots, a, "remote") = {}
      /\ groups' = groups /\ hub' = hub /\ doubled' = doubled
  BY DEF TrackRemote
<1>3. dev \in Device /\ dev.cfg.addr = a /\ dev.cfg.type = "remote"
  BY DiscoveredType DEF Device
<1> HIDE DEF i, dev
<1>4. /\ slots' \in [Slots -> Device \cup {NoDevice}] /\ slots'[i] = dev
      /\ \A j \in Slots : j # i => slots'[j] = slots[j]
  BY <1>1, <1>2, <1>3, SlotUpdate DEF RegInv
<1>5. Placed(i, dev)
  BY <1>1, <1>2, <1>3, <1>4 DEF Placed
<1>6. QED BY <1>2, <1>5 DEF i, dev

LEMMA RemoveEmpties ==
  ASSUME RegInv, NEW a \in Addrs, NEW t \in Types, RemoveDevice(a, t)
  PROVE  Emptied(First(Matches(slots, a, t)), a, t)
<1> DEFINE i == First(Matches(slots, a, t))
<1>1. i \in Slots /\ slots[i] # NoDevice /\ slots[i].cfg.addr = a /\ slots[i].cfg.type = t
  <2>1. i \in Matches(slots, a, t)
    BY FirstMatches DEF RemoveDevice
  <2>2. QED BY <2>1 DEF Matches, At
<1>2. /\ slots' = [slots EXCEPT ![i] = NoDevice]
      /\ groups' = PrunedGroups(a) /\ hub' = hub /\ doubled' = doubled
  BY DEF RemoveDevice
<1>3. slots[i] \in Device
  BY <1>1 DEF RegInv, RegTypeOK
<1> HIDE DEF i
<1>4. /\ slots' \in [Slots -> Device \cup {NoDevice}] /\ slots'[i] = NoDevice
      /\ \A j \in Slots : j # i => slots'[j] = slots[j]
  BY <1>1, <1>2, SlotUpdate DEF RegInv
<1>5. Emptied(i, a, t)
  BY <1>1, <1>2, <1>3, <1>4 DEF Emptied
<1>6. QED BY <1>5 DEF i

LEMMA StoreGroupFills ==
  ASSUME RegInv, NEW id \in GroupIds, NEW M \in SUBSET Addrs, StoreGroup(id, M)
  PROVE  Grouped(GroupSlotFor(id), id, [id |-> id, members |-> M])
<1> DEFINE k == GroupSlotFor(id)
           grp == [id |-> id, members |-> M]
<1>1. k \in GroupSlots /\ (k \in GroupsWith(id) \/ (groups[k] = NoGroup /\ GroupsWith(id) = {}))
  <2>1. CASE GroupsWith(id) # {}
    <3>1. k \in GroupsWith(id)
      BY <2>1, SlotsAreNat, FirstIsIn DEF GroupSlotFor, GroupsWith
    <3>2. QED BY <3>1 DEF GroupsWith
  <2>2. CASE GroupsWith(id) = {}
    <3>1. k \in FreeGroups
      BY <2>2, SlotsAreNat, FirstIsIn DEF GroupSlotFor, FreeGroups, StoreGroup
    <3>2. QED BY <2>2, <3>1 DEF FreeGroups
  <2>3. QED BY <2>1, <2>2
<1>2. /\ groups' = [groups EXCEPT ![k] = grp] /\ ValidMembers(M, slots)
      /\ slots' = slots /\ hub' = hub /\ doubled' = doubled
  BY DEF StoreGroup
<1>3. grp \in Group /\ grp.id = id /\ grp.members = M
  BY DEF Group
<1> HIDE DEF k, grp
<1>4. groups \in [GroupSlots -> Group \cup {NoGroup}]
  BY DEF RegInv, RegTypeOK
<1>5. Grouped(k, id, grp)
  BY <1>1, <1>2, <1>3, <1>4 DEF Grouped
<1>6. QED BY <1>5 DEF k, grp

LEMMA RemoveGroupClears ==
  ASSUME RegInv, NEW id \in GroupIds, RemoveGroup(id)
  PROVE  Grouped(First(GroupsWith(id)), id, NoGroup)
<1> DEFINE k == First(GroupsWith(id))
<1>1. k \in GroupsWith(id) /\ k \in GroupSlots
  BY SlotsAreNat, FirstIsIn DEF RemoveGroup, GroupsWith
<1>2. /\ groups' = [groups EXCEPT ![k] = NoGroup]
      /\ slots' = slots /\ hub' = hub /\ doubled' = doubled
  BY DEF RemoveGroup
<1> HIDE DEF k
<1>3. groups \in [GroupSlots -> Group \cup {NoGroup}]
  BY DEF RegInv, RegTypeOK
<1>4. Grouped(k, id, NoGroup)
  BY <1>1, <1>2, <1>3 DEF Grouped
<1>5. QED BY <1>4 DEF k

----------------------------------------------------------------------------
(* A boot that finds no device and no group twice leaves none in memory    *)
(* twice, and no operation makes one.                                      *)
NoDoubles == ~doubled => ~Twins(slots) /\ ~GroupTwins(groups)

(* The only device at its address: no slot order decides about it.         *)
Sole(ss, i) ==
  ss[i] # NoDevice /\ \A j \in Slots : ss[j] # NoDevice /\ ss[j].cfg.addr = ss[i].cfg.addr => j = i

(* Members of a group that are the only devices at their addresses have    *)
(* one type.                                                               *)
OneType ==
  \A g \in GroupSlots : groups[g] # NoGroup =>
    \A i, j \in Slots :
      /\ Sole(slots, i) /\ slots[i].cfg.addr \in groups[g].members
      /\ Sole(slots, j) /\ slots[j].cfg.addr \in groups[g].members
      => slots[i].cfg.type = slots[j].cfg.type

StoreInv == RegInv /\ NoDoubles /\ OneType

(* A member that is alone at its address is the device that the group's    *)
(* operations find there.                                                  *)
LEMMA SoleIsFound ==
  ASSUME NEW ss, NEW i \in Slots, Sole(ss, i)
  PROVE  DeviceAt(ss, ss[i].cfg.addr) = ss[i].cfg
<1>1. At(ss, ss[i].cfg.addr) = {i}
  BY DEF Sole, At
<1>2. First({i}) = i
  BY SlotsAreNat, FirstIsIn, i \in Nat
<1>3. QED BY <1>1, <1>2 DEF DeviceAt

LEMMA ValidIsOneType ==
  ASSUME NEW M, NEW ss, ValidMembers(M, ss), NEW i \in Slots, NEW j \in Slots,
         Sole(ss, i), ss[i].cfg.addr \in M, Sole(ss, j), ss[j].cfg.addr \in M
  PROVE  ss[i].cfg.type = ss[j].cfg.type
BY SoleIsFound DEF ValidMembers

LEMMA BootStoreInv ==
  ASSUME NEW d, groups = RestoredGroups(d, slots), RegInv,
         doubled = (Twins(slots) \/ GroupTwins(groups))
  PROVE  NoDoubles /\ OneType
<1>1. NoDoubles
  BY DEF NoDoubles
<1>2. OneType
  <2>1. \A g \in GroupSlots : groups[g] # NoGroup => ValidMembers(groups[g].members, slots)
    BY DEF RestoredGroups
  <2>2. QED BY <2>1, ValidIsOneType DEF OneType
<1>3. QED BY <1>1, <1>2

LEMMA StoreInit == RegInit => StoreInv
<1> SUFFICES ASSUME RegInit PROVE StoreInv
  OBVIOUS
<1>1. PICK d \in Images :
        /\ slots = RestoredDevices(d) /\ groups = RestoredGroups(d, RestoredDevices(d))
        /\ doubled = (Twins(slots) \/ GroupTwins(groups))
  BY DEF RegInit
<1>2. groups = RestoredGroups(d, slots) /\ RegInv
  BY <1>1, InitInv
<1>3. QED BY <1>1, <1>2, BootStoreInv DEF StoreInv

LEMMA PlacedStore ==
  ASSUME StoreInv, NEW i, NEW dev, Placed(i, dev)
  PROVE  NoDoubles' /\ OneType'
<1>1. /\ dev # NoDevice
      /\ \A j \in Slots : slots[j] = NoDevice \/ slots[j] \in Device
  BY RegistryAssumption DEF Placed, StoreInv, RegInv, RegTypeOK
<1>2. NoDoubles'
  <2>1. SUFFICES ASSUME ~doubled PROVE ~Twins(slots')
    BY DEF Placed, StoreInv, NoDoubles
  <2>2. ~Twins(slots)
    BY <2>1 DEF StoreInv, NoDoubles
  <2>3. \A j \in Slots \ {i} :
          slots[j] # NoDevice => slots[j].cfg.addr # dev.cfg.addr \/ slots[j].cfg.type # dev.cfg.type
    BY <2>2 DEF Placed, Twins, Matches, At
  <2>4. QED BY <1>1, <2>2, <2>3 DEF Placed, Twins
<1>3. OneType'
  <2>1. SUFFICES ASSUME NEW g \in GroupSlots, groups[g] # NoGroup,
                        NEW k \in Slots, NEW l \in Slots,
                        Sole(slots', k), slots'[k].cfg.addr \in groups[g].members,
                        Sole(slots', l), slots'[l].cfg.addr \in groups[g].members
                 PROVE  slots'[k].cfg.type = slots'[l].cfg.type
    BY DEF Placed, OneType
  <2>2. ASSUME NEW m \in Slots, Sole(slots', m), slots'[m].cfg.addr \in groups[g].members
        PROVE  Sole(slots, m) /\ slots'[m].cfg.addr = slots[m].cfg.addr
                 /\ slots'[m].cfg.type = slots[m].cfg.type
    <3>1. PICK n \in Slots : slots[n] # NoDevice /\ slots[n].cfg.addr = slots'[m].cfg.addr
      BY <2>1, <2>2 DEF StoreInv, RegInv, MembersKnown, At
    <3>2. slots'[n] # NoDevice /\ slots'[n].cfg.addr = slots[n].cfg.addr
            /\ slots'[n].cfg.type = slots[n].cfg.type
      BY <1>1, <3>1 DEF Placed, Matches, At
    <3>3. n = m
      BY <2>2, <3>1, <3>2 DEF Sole
    <3>4. \A j \in Slots : slots[j] # NoDevice /\ slots[j].cfg.addr = slots[m].cfg.addr => j = m
      <4> SUFFICES ASSUME NEW j \in Slots, slots[j] # NoDevice,
                          slots[j].cfg.addr = slots[m].cfg.addr
                   PROVE  j = m
        OBVIOUS
      <4>1. slots'[j] # NoDevice /\ slots'[j].cfg.addr = slots[j].cfg.addr
        BY <1>1 DEF Placed, Matches, At
      <4>2. QED BY <2>2, <3>1, <3>2, <3>3, <4>1 DEF Sole
    <3>5. QED BY <3>1, <3>2, <3>3, <3>4 DEF Sole
  <2>3. QED BY <2>1, <2>2 DEF StoreInv, OneType
<1>4. QED BY <1>2, <1>3

LEMMA PrunedGroup ==
  ASSUME RegInv, NEW a, groups' = PrunedGroups(a), NEW g \in GroupSlots, groups'[g] # NoGroup
  PROVE  /\ groups[g] # NoGroup /\ groups'[g].id = groups[g].id
         /\ a \notin groups'[g].members /\ groups'[g].members \subseteq groups[g].members
<1>1. groups'[g] = PruneGroup(groups[g], a)
  BY DEF PrunedGroups
<1>2. groups[g] \in Group \cup {NoGroup}
  BY DEF RegInv, RegTypeOK
<1>3. groups[g] # NoGroup
  BY <1>1 DEF PruneGroup
<1>4. CASE a \in groups[g].members
  <2>1. groups'[g] = [groups[g] EXCEPT !.members = groups[g].members \ {a}]
    BY <1>1, <1>2, <1>3, <1>4 DEF PruneGroup, Group
  <2>2. QED BY <1>2, <1>3, <2>1 DEF Group
<1>5. CASE a \notin groups[g].members
  BY <1>1, <1>3, <1>5 DEF PruneGroup
<1>6. QED BY <1>3, <1>4, <1>5

LEMMA EmptiedStore ==
  ASSUME StoreInv, NEW i, NEW a, NEW t, Emptied(i, a, t)
  PROVE  NoDoubles' /\ OneType'
<1>1. \A g \in GroupSlots : groups'[g] # NoGroup =>
        /\ groups[g] # NoGroup /\ groups'[g].id = groups[g].id
        /\ a \notin groups'[g].members /\ groups'[g].members \subseteq groups[g].members
  BY PrunedGroup DEF Emptied, StoreInv
<1>2. NoDoubles'
  BY <1>1 DEF Emptied, StoreInv, NoDoubles, Twins, GroupTwins
<1>3. OneType'
  <2>1. SUFFICES ASSUME NEW g \in GroupSlots, groups'[g] # NoGroup,
                        NEW k \in Slots, NEW l \in Slots,
                        Sole(slots', k), slots'[k].cfg.addr \in groups'[g].members,
                        Sole(slots', l), slots'[l].cfg.addr \in groups'[g].members
                 PROVE  slots'[k].cfg.type = slots'[l].cfg.type
    BY DEF OneType
  <2>2. ASSUME NEW m \in Slots, Sole(slots', m), slots'[m].cfg.addr \in groups'[g].members
        PROVE  Sole(slots, m) /\ slots'[m] = slots[m] /\ slots[m].cfg.addr \in groups[g].members
    BY <1>1, <2>1, <2>2 DEF Emptied, Sole
  <2>3. groups[g] # NoGroup
    BY <1>1, <2>1
  <2>4. QED BY <2>1, <2>2, <2>3 DEF StoreInv, OneType
<1>4. QED BY <1>2, <1>3

LEMMA GroupedStore ==
  ASSUME StoreInv, NEW k, NEW id, NEW grp, Grouped(k, id, grp)
  PROVE  NoDoubles' /\ OneType'
<1>1. NoDoubles'
  BY DEF Grouped, StoreInv, NoDoubles, GroupTwins, GroupsWith
<1>2. OneType'
  <2>1. grp # NoGroup => ValidMembers(grp.members, slots)
    BY DEF Grouped
  <2>2. grp # NoGroup =>
          \A i, j \in Slots :
            /\ Sole(slots, i) /\ slots[i].cfg.addr \in grp.members
            /\ Sole(slots, j) /\ slots[j].cfg.addr \in grp.members
            => slots[i].cfg.type = slots[j].cfg.type
    BY <2>1, ValidIsOneType
  <2>3. QED BY <2>2 DEF Grouped, StoreInv, OneType
<1>3. QED BY <1>1, <1>2

----------------------------------------------------------------------------
(* What a browser shows.                                                   *)
ShownDevs == {slots[i].cfg : i \in {j \in Slots : slots[j] # NoDevice}}
ShownGrps == {groups[g] : g \in {h \in GroupSlots : groups[h] # NoGroup}}

LEMMA ShownIs ==
  \E o : /\ Shown = [open |-> o, devs |-> ShownDevs, grps |-> ShownGrps]
         /\ Shown' = [open |-> o, devs |-> ShownDevs', grps |-> ShownGrps']
<1>1. /\ Shown = [open |-> TRUE, devs |-> ShownDevs, grps |-> ShownGrps]
      /\ Shown' = [open |-> TRUE, devs |-> ShownDevs', grps |-> ShownGrps']
  BY DEF Shown, ShownDevs, ShownGrps
<1>2. QED BY <1>1, Zenon

LEMMA ClientFields ==
  ASSUME NEW c, NEW o, NEW d, NEW g, NEW e, c = [open |-> o, devs |-> d, grps |-> g]
  PROVE  /\ [c EXCEPT !.devs = e] = [open |-> o, devs |-> e, grps |-> g]
         /\ [c EXCEPT !.grps = e] = [open |-> o, devs |-> d, grps |-> e]
         /\ c.open = o /\ c.devs = d /\ c.grps = g
OBVIOUS

LEMMA ShowPlaced ==
  ASSUME StoreInv, ~doubled, NEW i, NEW dev, Placed(i, dev)
  PROVE  ShowDevice(Shown, dev.cfg) = Shown'
<1> DEFINE others == {d \in ShownDevs : d.addr # dev.cfg.addr \/ d.type # dev.cfg.type}
<1>0. PICK o : /\ Shown = [open |-> o, devs |-> ShownDevs, grps |-> ShownGrps]
               /\ Shown' = [open |-> o, devs |-> ShownDevs', grps |-> ShownGrps']
  BY ShownIs
<1>1. dev # NoDevice
  BY RegistryAssumption DEF Placed
<1>2. \A j \in Slots \ {i} :
        slots[j] # NoDevice => slots[j].cfg.addr # dev.cfg.addr \/ slots[j].cfg.type # dev.cfg.type
  BY DEF StoreInv, NoDoubles, Placed, Twins, Matches, At
<1>3. slots[i] # NoDevice => slots[i].cfg.addr = dev.cfg.addr /\ slots[i].cfg.type = dev.cfg.type
  BY DEF Placed, Matches, At
<1>4. ShownDevs' = others \cup {dev.cfg}
  <2>1. ASSUME NEW d \in ShownDevs' PROVE d \in others \cup {dev.cfg}
    <3>1. PICK j \in Slots : slots'[j] # NoDevice /\ d = slots'[j].cfg
      BY <2>1 DEF ShownDevs
    <3>2. CASE j = i
      BY <3>1, <3>2 DEF Placed
    <3>3. CASE j # i
      BY <1>2, <3>1, <3>3 DEF Placed, ShownDevs
    <3>4. QED BY <3>2, <3>3
  <2>2. dev.cfg \in ShownDevs'
    BY <1>1 DEF Placed, ShownDevs
  <2>3. ASSUME NEW d \in others PROVE d \in ShownDevs'
    <3>1. PICK j \in Slots : slots[j] # NoDevice /\ d = slots[j].cfg
      BY <2>3 DEF ShownDevs
    <3>2. j # i
      BY <1>3, <2>3, <3>1
    <3>3. QED BY <3>1, <3>2 DEF Placed, ShownDevs
  <2>4. QED BY <2>1, <2>2, <2>3
<1>5. ShownGrps' = ShownGrps
  BY DEF Placed, ShownGrps
<1>6. OtherDevices(Shown, dev.cfg) = others
  BY <1>0 DEF OtherDevices
<1> HIDE DEF others
<1>7. ShowDevice(Shown, dev.cfg) = [open |-> o, devs |-> others \cup {dev.cfg}, grps |-> ShownGrps]
  <2> DEFINE all == others \cup {dev.cfg}
  <2>1. ShowDevice(Shown, dev.cfg) = [Shown EXCEPT !.devs = all]
    BY <1>6 DEF ShowDevice
  <2> HIDE DEF all
  <2>2. ShowDevice(Shown, dev.cfg) = [open |-> o, devs |-> all, grps |-> ShownGrps]
    BY <1>0, <2>1, ClientFields
  <2>3. QED BY <2>2 DEF all
<1>8. QED BY <1>0, <1>4, <1>5, <1>7

LEMMA LatestOne ==
  ASSUME NEW k \in Nat
  PROVE  Latest({k}) = k
BY DEF Latest

(* The groups that an address is pruned from, by their ids.                *)
LEMMA ChangesAre ==
  ASSUME StoreInv, ~doubled, NEW a, groups' = PrunedGroups(a)
  PROVE  /\ \A g \in GroupSlots : groups'[g] # groups[g] =>
              /\ groups[g] # NoGroup /\ groups[g].id \in DOMAIN PruneChanges(a)
              /\ PruneChanges(a)[groups[g].id] = groups'[g]
         /\ \A id \in DOMAIN PruneChanges(a) : \E g \in GroupSlots :
              /\ groups[g] # NoGroup /\ groups[g].id = id
              /\ groups'[g] # groups[g] /\ PruneChanges(a)[id] = groups'[g]
<1> DEFINE ch == PruneChanges(a)
           of(id) == {g \in Pruned(a) : groups[g].id = id}
<1>1. \A g \in GroupSlots : g \in Pruned(a) <=> groups'[g] # groups[g]
  BY DEF Pruned
<1>2. \A g \in Pruned(a) : g \in GroupSlots /\ groups[g] # NoGroup
  BY DEF Pruned, PrunedGroups, PruneGroup
<1>3. \A g \in Pruned(a) : of(groups[g].id) = {g}
  BY <1>2 DEF StoreInv, NoDoubles, GroupTwins
<1>4. \A g \in Pruned(a) : Latest(of(groups[g].id)) = g
  BY <1>2, <1>3, SlotsAreNat, LatestOne
<1>5. ch = [id \in {groups[g].id : g \in Pruned(a)} |-> groups'[Latest(of(id))]]
  BY DEF PruneChanges
<1> HIDE DEF ch, of
<1>6. \A g \in Pruned(a) : groups[g].id \in DOMAIN ch /\ ch[groups[g].id] = groups'[g]
  BY <1>4, <1>5
<1>7. \A id \in DOMAIN ch : \E g \in Pruned(a) : groups[g].id = id
  BY <1>5
<1>8. QED BY <1>1, <1>2, <1>6, <1>7 DEF ch

LEMMA ShowEmptied ==
  ASSUME StoreInv, ~doubled, NEW i, NEW a, NEW t, Emptied(i, a, t)
  PROVE  ShowGroups(HideDevice(Shown, slots[i].cfg), PruneChanges(a)) = Shown'
<1> DEFINE others == {d \in ShownDevs : d.addr # a \/ d.type # t}
           ch == PruneChanges(a)
           left == {g \in ShownGrps : g.id \notin DOMAIN ch} \cup ({ch[id] : id \in DOMAIN ch} \ {NoGroup})
<1>0. PICK o : /\ Shown = [open |-> o, devs |-> ShownDevs, grps |-> ShownGrps]
               /\ Shown' = [open |-> o, devs |-> ShownDevs', grps |-> ShownGrps']
  BY ShownIs
<1>1. ShownDevs' = others
  <2>1. slots[i] # NoDevice
    BY RegistryAssumption DEF Emptied
  <2>2. \A j \in Slots \ {i} : slots[j] # NoDevice => slots[j].cfg.addr # a \/ slots[j].cfg.type # t
    BY <2>1 DEF StoreInv, NoDoubles, Emptied, Twins
  <2>3. ASSUME NEW d \in ShownDevs' PROVE d \in others
    <3>1. PICK j \in Slots : slots'[j] # NoDevice /\ d = slots'[j].cfg
      BY <2>3 DEF ShownDevs
    <3>2. j # i /\ slots[j] = slots'[j]
      BY <3>1 DEF Emptied
    <3>3. QED BY <2>2, <3>1, <3>2 DEF ShownDevs
  <2>4. ASSUME NEW d \in others PROVE d \in ShownDevs'
    <3>1. PICK j \in Slots : slots[j] # NoDevice /\ d = slots[j].cfg
      BY <2>4 DEF ShownDevs
    <3>2. j # i
      BY <2>4, <3>1 DEF Emptied
    <3>3. QED BY <3>1, <3>2 DEF Emptied, ShownDevs
  <2>5. QED BY <2>3, <2>4
<1>2. /\ \A g \in GroupSlots : groups[g] # NoGroup /\ groups'[g] # groups[g] =>
           groups[g].id \in DOMAIN ch /\ ch[groups[g].id] = groups'[g]
      /\ \A id \in DOMAIN ch : \E g \in GroupSlots :
           groups[g] # NoGroup /\ groups[g].id = id /\ groups'[g] # groups[g] /\ ch[id] = groups'[g]
  BY ChangesAre DEF Emptied
<1>3. \A g \in GroupSlots : groups'[g] # NoGroup => groups[g] # NoGroup /\ groups'[g].id = groups[g].id
  BY PrunedGroup DEF Emptied, StoreInv
<1>4. ShownGrps' = left
  <2> HIDE DEF ch
  <2>1. ASSUME NEW x \in ShownGrps' PROVE x \in left
    <3>1. PICK g \in GroupSlots : groups'[g] # NoGroup /\ x = groups'[g]
      BY <2>1 DEF ShownGrps
    <3>2. CASE groups'[g] # groups[g]
      BY <1>2, <1>3, <3>1, <3>2
    <3>3. CASE groups'[g] = groups[g]
      <4>1. x.id \notin DOMAIN ch
        BY <1>2, <3>1, <3>3 DEF StoreInv, NoDoubles, GroupTwins
      <4>2. QED BY <3>1, <3>3, <4>1 DEF ShownGrps
    <3>4. QED BY <3>2, <3>3
  <2>2. ASSUME NEW x \in left PROVE x \in ShownGrps'
    <3>1. CASE x \in ShownGrps /\ x.id \notin DOMAIN ch
      <4>1. PICK g \in GroupSlots : groups[g] # NoGroup /\ x = groups[g]
        BY <3>1 DEF ShownGrps
      <4>2. groups'[g] = groups[g]
        BY <1>2, <3>1, <4>1
      <4>3. QED BY <4>1, <4>2 DEF ShownGrps
    <3>2. CASE x # NoGroup /\ \E id \in DOMAIN ch : x = ch[id]
      BY <1>2, <3>2 DEF ShownGrps
    <3>3. QED BY <2>2, <3>1, <3>2
  <2>3. QED BY <2>1, <2>2
<1>5. OtherDevices(Shown, slots[i].cfg) = others
  BY <1>0 DEF OtherDevices, Emptied
<1> HIDE DEF others
<1>6. HideDevice(Shown, slots[i].cfg) = [open |-> o, devs |-> others, grps |-> ShownGrps]
  BY <1>0, <1>5, ClientFields DEF HideDevice
<1> HIDE DEF ch
<1>7. ShowGroups(HideDevice(Shown, slots[i].cfg), ch) = [open |-> o, devs |-> others, grps |-> left]
  <2> DEFINE c == HideDevice(Shown, slots[i].cfg)
  <2>1. c.grps = ShownGrps
    BY <1>6, ClientFields
  <2>2. ShowGroups(c, ch) = [c EXCEPT !.grps = left]
    BY <2>1 DEF ShowGroups
  <2> HIDE DEF left
  <2>3. QED BY <1>6, <2>2, ClientFields
<1>8. QED BY <1>0, <1>1, <1>4, <1>7 DEF ch

LEMMA ShowGrouped ==
  ASSUME StoreInv, ~doubled, NEW k, NEW id, NEW grp, Grouped(k, id, grp),
         NEW ch, DOMAIN ch = {id}, ch[id] = grp
  PROVE  ShowGroups(Shown, ch) = Shown'
<1>0. PICK o : /\ Shown = [open |-> o, devs |-> ShownDevs, grps |-> ShownGrps]
               /\ Shown' = [open |-> o, devs |-> ShownDevs', grps |-> ShownGrps']
  BY ShownIs
<1> DEFINE left == {g \in ShownGrps : g.id \notin DOMAIN ch} \cup ({ch[x] : x \in DOMAIN ch} \ {NoGroup})
<1>1. \A g \in GroupSlots \ {k} : groups[g] # NoGroup => groups[g].id # id
  BY DEF Grouped, StoreInv, NoDoubles, GroupTwins, GroupsWith
<1>2. groups[k] # NoGroup => groups[k].id = id
  BY DEF Grouped, GroupsWith
<1>3. ShownGrps' = left
  <2>1. ASSUME NEW x \in ShownGrps' PROVE x \in left
    <3>1. PICK g \in GroupSlots : groups'[g] # NoGroup /\ x = groups'[g]
      BY <2>1 DEF ShownGrps
    <3>2. CASE g = k
      BY <3>1, <3>2 DEF Grouped
    <3>3. CASE g # k
      BY <1>1, <3>1, <3>3 DEF Grouped, ShownGrps
    <3>4. QED BY <3>2, <3>3
  <2>2. ASSUME NEW x \in left PROVE x \in ShownGrps'
    <3>1. CASE x \in ShownGrps /\ x.id # id
      <4>1. PICK g \in GroupSlots : groups[g] # NoGroup /\ x = groups[g]
        BY <3>1 DEF ShownGrps
      <4>2. g # k
        BY <1>2, <3>1, <4>1
      <4>3. QED BY <4>1, <4>2 DEF Grouped, ShownGrps
    <3>2. CASE x # NoGroup /\ x = grp
      BY <3>2 DEF Grouped, ShownGrps
    <3>3. QED BY <2>2, <3>1, <3>2
  <2>3. QED BY <2>1, <2>2
<1>4. ShownDevs' = ShownDevs
  BY DEF Grouped, ShownDevs
<1>5. Shown.grps = ShownGrps
  BY <1>0, ClientFields
<1>6. ShowGroups(Shown, ch) = [Shown EXCEPT !.grps = left]
  BY <1>5 DEF ShowGroups
<1> HIDE DEF left
<1>7. ShowGroups(Shown, ch) = [open |-> o, devs |-> ShownDevs, grps |-> left]
  BY <1>0, <1>6, ClientFields
<1>8. QED BY <1>0, <1>3, <1>4, <1>7

----------------------------------------------------------------------------
(* An operation of the registry that notifies the adapters of e.           *)
Notified(e) ==
  \/ \E i, dev :
       /\ Placed(i, dev) /\ e.dev = dev
       /\ e.kind = IF slots[i] = NoDevice THEN "added" ELSE "config"
  \/ \E i, a, t :
       /\ Emptied(i, a, t)
       /\ e.kind = "removed" /\ e.dev = slots[i] /\ e.changes = PruneChanges(a)
  \/ \E k, id, grp :
       /\ Grouped(k, id, grp)
       /\ e.kind = "groups" /\ DOMAIN e.changes = {id} /\ e.changes[id] = grp
  \/ slots' = slots /\ groups' = groups /\ doubled' = doubled /\ e.kind = "hub"

LEMMA NotifiedStore ==
  ASSUME StoreInv, NEW e, Notified(e)
  PROVE  NoDoubles' /\ OneType'
<1>1. CASE slots' = slots /\ groups' = groups /\ doubled' = doubled
  BY <1>1 DEF StoreInv, NoDoubles, OneType
<1>2. QED BY <1>1, PlacedStore, EmptiedStore, GroupedStore DEF Notified

LEMMA UpsertNotifies ==
  ASSUME RegInv, NEW c \in Config, Upsert(c)
  PROVE  Notified(UpsertEvent(c))
<1> DEFINE dev == [cfg |-> c, saved |-> TRUE]
<1>1. Placed(SlotFor(c), dev)
  BY UpsertPlaces
<1>2. dev.cfg = c
  OBVIOUS
<1>3. UpsertEvent(c) = [kind |-> IF Matches(slots, c.addr, c.type) # {} THEN "config" ELSE "added",
                        dev |-> dev]
  BY DEF UpsertEvent
<1> HIDE DEF dev
<1>4. slots[SlotFor(c)] = NoDevice <=> Matches(slots, c.addr, c.type) = {}
  BY <1>1, <1>2 DEF Placed, Matches, At
<1>5. /\ UpsertEvent(c).dev = dev
      /\ UpsertEvent(c).kind = IF slots[SlotFor(c)] = NoDevice THEN "added" ELSE "config"
  BY <1>3, <1>4
<1>6. QED BY <1>1, <1>5 DEF Notified

LEMMA TrackNotifies ==
  ASSUME RegInv, NEW a \in Addrs, TrackRemote(a)
  PROVE  Notified(TrackEvent(a))
<1> DEFINE dev == [cfg |-> Discovered(a), saved |-> FALSE]
           i == First(Free(slots))
<1>1. Placed(i, dev) /\ Matches(slots, a, "remote") = {}
  BY TrackPlaces
<1>2. dev.cfg.addr = a /\ dev.cfg.type = "remote"
  BY DiscoveredType
<1>3. TrackEvent(a) = [kind |-> "added", dev |-> dev]
  BY DEF TrackEvent
<1> HIDE DEF dev, i
<1>4. slots[i] = NoDevice
  BY <1>1, <1>2 DEF Placed
<1>5. /\ TrackEvent(a).dev = dev
      /\ TrackEvent(a).kind = IF slots[i] = NoDevice THEN "added" ELSE "config"
  BY <1>3, <1>4
<1>6. QED BY <1>1, <1>5 DEF Notified

LEMMA RemoveNotifies ==
  ASSUME RegInv, NEW a \in Addrs, NEW t \in Types, RemoveDevice(a, t)
  PROVE  Notified(RemoveEvent(a, t))
<1> DEFINE i == First(Matches(slots, a, t))
<1>1. Emptied(i, a, t)
  BY RemoveEmpties
<1>2. RemoveEvent(a, t) = [kind |-> "removed", dev |-> slots[i], changes |-> PruneChanges(a)]
  BY DEF RemoveEvent
<1> HIDE DEF i
<1>3. /\ RemoveEvent(a, t).kind = "removed" /\ RemoveEvent(a, t).dev = slots[i]
      /\ RemoveEvent(a, t).changes = PruneChanges(a)
  BY <1>2
<1>4. QED BY <1>1, <1>3 DEF Notified

LEMMA StoreGroupNotifies ==
  ASSUME RegInv, NEW id \in GroupIds, NEW M \in SUBSET Addrs, StoreGroup(id, M)
  PROVE  Notified(GroupEvent(id, M))
<1> DEFINE grp == [id |-> id, members |-> M]
           ch == [k \in {id} |-> grp]
<1>1. Grouped(GroupSlotFor(id), id, grp)
  BY StoreGroupFills
<1>2. GroupEvent(id, M) = [kind |-> "groups", changes |-> ch]
  BY DEF GroupEvent
<1>3. DOMAIN ch = {id} /\ ch[id] = grp
  OBVIOUS
<1> HIDE DEF grp, ch
<1>4. GroupEvent(id, M).kind = "groups" /\ GroupEvent(id, M).changes = ch
  BY <1>2
<1>5. QED BY <1>1, <1>3, <1>4 DEF Notified

LEMMA RemoveGroupNotifies ==
  ASSUME RegInv, NEW id \in GroupIds, RemoveGroup(id)
  PROVE  Notified(RemoveGroupEvent(id))
<1> DEFINE ch == [k \in {id} |-> NoGroup]
<1>1. Grouped(First(GroupsWith(id)), id, NoGroup)
  BY RemoveGroupClears
<1>2. RemoveGroupEvent(id) = [kind |-> "groups", changes |-> ch]
  BY DEF RemoveGroupEvent
<1>3. DOMAIN ch = {id} /\ ch[id] = NoGroup
  OBVIOUS
<1> HIDE DEF ch
<1>4. RemoveGroupEvent(id).kind = "groups" /\ RemoveGroupEvent(id).changes = ch
  BY <1>2
<1>5. QED BY <1>1, <1>3, <1>4 DEF Notified

LEMMA HubNotifies ==
  ASSUME NEW n, SetHubName(n)
  PROVE  Notified(HubEvent)
BY DEF SetHubName, HubEvent, Notified

(* One operation of the registry, and what it notifies of.                 *)
Operation(e) ==
  \/ \E c \in Config : Upsert(c) /\ e = UpsertEvent(c)
  \/ \E a \in Addrs, t \in Types : RemoveDevice(a, t) /\ e = RemoveEvent(a, t)
  \/ \E id \in GroupIds, M \in SUBSET Addrs : StoreGroup(id, M) /\ e = GroupEvent(id, M)
  \/ \E id \in GroupIds : RemoveGroup(id) /\ e = RemoveGroupEvent(id)
  \/ \E a \in Addrs : TrackRemote(a) /\ e = TrackEvent(a)
  \/ \E n \in HubNames : SetHubName(n) /\ e = HubEvent

LEMMA OperationNotifies ==
  ASSUME StoreInv, NEW e, Operation(e)
  PROVE  Notified(e) /\ StoreInv'
<1>1. Notified(e)
  BY UpsertNotifies, RemoveNotifies, StoreGroupNotifies, RemoveGroupNotifies, TrackNotifies,
     HubNotifies DEF Operation, StoreInv
<1>2. RegInv'
  BY UpsertInv, RemoveDeviceInv, StoreGroupInv, RemoveGroupInv, TrackInv, SetHubNameInv
     DEF Operation, StoreInv
<1>3. QED BY <1>1, <1>2, NotifiedStore DEF StoreInv

LEMMA RestartStore ==
  ASSUME StoreInv, NEW S \in SUBSET Keys, Restart(S)
  PROVE  StoreInv'
<1>1. RegInv'
  BY RestartInv DEF StoreInv
<1>2. /\ slots' = RestoredDevices(Flushed(S))
      /\ groups' = RestoredGroups(Flushed(S), slots')
      /\ doubled' = (Twins(slots') \/ GroupTwins(groups'))
  BY DEF Restart, Boot
<1>3. NoDoubles'
  BY <1>2 DEF NoDoubles
<1>4. OneType'
  <2>1. \A g \in GroupSlots : groups'[g] # NoGroup => ValidMembers(groups'[g].members, slots')
    BY <1>2 DEF RestoredGroups
  <2>2. QED BY <2>1, ValidIsOneType DEF OneType
<1>5. QED BY <1>1, <1>3, <1>4 DEF StoreInv

----------------------------------------------------------------------------
(* An import applies entries of the form that an export wrote.             *)
Entries ==
  [op : {"hub"}, name : HubNames] \cup [op : {"device"}, cfg : Config]
    \cup [op : {"group"}, id : GroupIds, members : SUBSET Addrs]

BackupOK ==
  /\ backup # NoBackup =>
       DOMAIN backup \subseteq Nat /\ \A k \in DOMAIN backup : backup[k] \in Entries
  /\ todo # {} => backup # NoBackup /\ todo \subseteq DOMAIN backup

LEMMA EntryType ==
  ASSUME BackupOK, todo # {}
  PROVE  Entry \in Entries
<1>1. todo \subseteq Nat
  BY DEF BackupOK
<1>2. First(todo) \in todo
  BY <1>1, FirstIsIn
<1>3. QED BY <1>2 DEF BackupOK, Entry

LEMMA AppliedIs ==
  ASSUME NEW e \in Entries, Applied(e)
  PROVE  Operation(EntryEvent(e))
<1>1. CASE e \in [op : {"hub"}, name : HubNames]
  <2>1. EntryEvent(e) = HubEvent
    BY <1>1 DEF EntryEvent
  <2>2. SetHubName(e.name) /\ e.name \in HubNames
    BY <1>1 DEF Applied
  <2>3. QED BY <2>1, <2>2 DEF Operation
<1>2. CASE e \in [op : {"device"}, cfg : Config]
  <2>1. EntryEvent(e) = UpsertEvent(e.cfg)
    BY <1>2 DEF EntryEvent
  <2>2. Upsert(e.cfg) /\ e.cfg \in Config
    BY <1>2 DEF Applied
  <2>3. QED BY <2>1, <2>2 DEF Operation
<1>3. CASE e \in [op : {"group"}, id : GroupIds, members : SUBSET Addrs]
  <2>1. EntryEvent(e) = GroupEvent(e.id, e.members)
    BY <1>3 DEF EntryEvent
  <2>2. StoreGroup(e.id, e.members) /\ e.id \in GroupIds /\ e.members \in SUBSET Addrs
    BY <1>3 DEF Applied
  <2>3. QED BY <2>1, <2>2 DEF Operation
<1>4. QED BY <1>1, <1>2, <1>3 DEF Entries

LEMMA ExportType ==
  ASSUME RegInv
  PROVE  DOMAIN Export \subseteq Nat /\ \A k \in DOMAIN Export : Export[k] \in Entries
<1> DEFINE saved == {i \in Slots : slots[i] # NoDevice /\ slots[i].saved}
           used == {g \in GroupSlots : groups[g] # NoGroup}
           places == (IF hub = NoName THEN {} ELSE {0}) \cup saved \cup {MAX_DEVICES + g : g \in used}
           hubEntry == [op |-> "hub", name |-> hub]
           devEntry(k) == [op |-> "device", cfg |-> slots[k].cfg]
           grpEntry(g) == [op |-> "group", id |-> groups[g].id, members |-> groups[g].members]
<1>1. Export = [k \in places |-> IF k = 0 THEN hubEntry ELSE IF k \in Slots THEN devEntry(k)
                                 ELSE grpEntry(k - MAX_DEVICES)]
  BY DEF Export
<1>2. hubEntry \in Entries
  BY DEF Entries, RegInv, RegTypeOK
<1>3. \A i \in saved : devEntry(i) \in Entries
  <2> TAKE i \in saved
  <2>1. slots[i] \in Device
    BY DEF RegInv, RegTypeOK
  <2>2. slots[i].cfg \in Config
    BY <2>1 DEF Device
  <2>3. QED BY <2>2 DEF Entries
<1>4. \A g \in used : grpEntry(g) \in Entries
  <2> TAKE g \in used
  <2>1. groups[g] \in Group
    BY DEF RegInv, RegTypeOK
  <2>2. groups[g].id \in GroupIds /\ groups[g].members \in SUBSET Addrs
    BY <2>1 DEF Group
  <2>3. QED BY <2>2 DEF Entries
<1>5. places \subseteq Nat
  <2>1. saved \subseteq Nat /\ used \subseteq Nat
    BY SlotsAreNat
  <2> HIDE DEF saved, used
  <2>2. \A g \in used : MAX_DEVICES + g \in Nat
    BY <2>1, RegistryAssumption
  <2>3. {MAX_DEVICES + g : g \in used} \subseteq Nat
    BY <2>2
  <2>4. (IF hub = NoName THEN {} ELSE {0}) \subseteq Nat
    OBVIOUS
  <2>5. QED BY <2>1, <2>3, <2>4
<1>6. ASSUME NEW k \in places, k # 0, k \notin Slots PROVE k - MAX_DEVICES \in used
  BY <1>6, RegistryAssumption, SlotsAreNat
<1>7. \A k \in places : k \in Slots /\ k # 0 => k \in saved
  BY RegistryAssumption DEF Slots, GroupSlots
<1> HIDE DEF saved, used, places, hubEntry, devEntry, grpEntry
<1>8. DOMAIN Export \subseteq Nat
  BY <1>1, <1>5
<1>9. \A k \in DOMAIN Export : Export[k] \in Entries
  BY <1>1, <1>2, <1>3, <1>4, <1>6, <1>7
<1>10. QED BY <1>8, <1>9

(* A client that has heard of every change so far hears of this one.       *)
LEMMA ClientStep ==
  ASSUME StoreInv, ClientMirrors, NEW e, Notified(e), Broadcast(e)
  PROVE  ClientMirrors'
<1>1. SUFFICES ASSUME client'.open, synced', ~doubled' PROVE client' = Shown'
  BY DEF ClientMirrors
<1>2. ~doubled
  BY <1>1 DEF Notified, Placed, Emptied, Grouped
<1>3. client.open /\ enabled /\ synced
  BY <1>1 DEF Broadcast
<1>4. client = Shown /\ client' = Show(Shown, e)
  BY <1>2, <1>3 DEF ClientMirrors, Broadcast
<1>5. CASE \E i, dev : /\ Placed(i, dev) /\ e.dev = dev
                        /\ e.kind = IF slots[i] = NoDevice THEN "added" ELSE "config"
  <2>1. PICK i, dev : Placed(i, dev) /\ e.dev = dev /\ e.kind \in {"added", "config"}
    BY <1>5, Zenon
  <2>2. Show(Shown, e) = ShowDevice(Shown, dev.cfg)
    BY <2>1 DEF Show
  <2>3. QED BY <1>2, <1>4, <2>1, <2>2, ShowPlaced
<1>6. CASE \E i, a, t : /\ Emptied(i, a, t) /\ e.kind = "removed" /\ e.dev = slots[i]
                        /\ e.changes = PruneChanges(a)
  BY <1>2, <1>4, <1>6, ShowEmptied DEF Show
<1>7. CASE \E k, id, grp : /\ Grouped(k, id, grp) /\ e.kind = "groups"
                           /\ DOMAIN e.changes = {id} /\ e.changes[id] = grp
  BY <1>2, <1>4, <1>7, ShowGrouped DEF Show
<1>8. CASE slots' = slots /\ groups' = groups /\ e.kind = "hub"
  BY <1>4, <1>8 DEF Show, Shown
<1>9. QED BY <1>5, <1>6, <1>7, <1>8 DEF Notified

----------------------------------------------------------------------------
(* The steps of the gateway, as the adapters see them.                     *)
GatewayInv == StoreInv /\ BackupOK

Operates == \E e : Operation(e) /\ MqttHears(e) /\ Broadcast(e)
Boots == (\E S \in SUBSET Keys : Restart(S)) /\ MqttRestarts /\ WebRestarts
StoreStays ==
  /\ Flush \/ UNCHANGED regVars
  /\ UNCHANGED <<slots, groups, hub, doubled>>
BrokerSteps ==
  /\ StoreStays /\ UNCHANGED <<client, synced>>
  /\ MqttStep \/ Connect \/ LinkDies \/ Disconnect
BrowserSteps ==
  /\ StoreStays /\ UNCHANGED mqttVars
  /\ ClientOpens \/ ClientCloses \/ UNCHANGED <<client, synced>>
Parts == Operates \/ Boots \/ BrokerSteps \/ BrowserSteps

LEMMA EditIs ==
  ASSUME NEW e, Operation(e), Edit(e)
  PROVE  Operates
BY DEF Edit, WebHears, Operates

LEMMA UserSteps ==
  ASSUME UserUpserts \/ UserRemoves \/ UserUpsertsGroup \/ UserRemovesGroup
           \/ RemoteHeard \/ UserNamesHub
  PROVE  Operates
<1>1. CASE UserUpserts
  <2>1. PICK c \in Edits : Upsert(c) /\ Edit(UpsertEvent(c))
    BY <1>1 DEF UserUpserts
  <2>2. Operation(UpsertEvent(c))
    BY <2>1, GatewayAssumption DEF Operation
  <2>3. QED BY <2>1, <2>2, EditIs
<1>2. CASE UserRemoves
  <2>1. PICK a \in Addrs, t \in Types : RemoveDevice(a, t) /\ Edit(RemoveEvent(a, t))
    BY <1>2 DEF UserRemoves
  <2>2. Operation(RemoveEvent(a, t))
    BY <2>1 DEF Operation
  <2>3. QED BY <2>1, <2>2, EditIs
<1>3. CASE UserUpsertsGroup
  <2>1. PICK x \in GroupEdits : UpsertGroup(x[1], x[2]) /\ Edit(GroupEvent(x[1], MembersOf(x[2])))
    BY <1>3 DEF UserUpsertsGroup
  <2>2. x[1] \in GroupIds /\ x[2] \in Seq(Addrs)
    BY GatewayAssumption
  <2>3. MembersOf(x[2]) \in SUBSET Addrs
    BY <2>2 DEF MembersOf
  <2>4. StoreGroup(x[1], MembersOf(x[2]))
    BY <2>1 DEF UpsertGroup
  <2>5. Operation(GroupEvent(x[1], MembersOf(x[2])))
    BY <2>2, <2>3, <2>4 DEF Operation
  <2>6. QED BY <2>1, <2>5, EditIs
<1>4. CASE UserRemovesGroup
  <2>1. PICK id \in GroupIds : RemoveGroup(id) /\ Edit(RemoveGroupEvent(id))
    BY <1>4 DEF UserRemovesGroup
  <2>2. Operation(RemoveGroupEvent(id))
    BY <2>1 DEF Operation
  <2>3. QED BY <2>1, <2>2, EditIs
<1>5. CASE RemoteHeard
  <2>1. PICK a \in Strangers : TrackRemote(a) /\ Edit(TrackEvent(a))
    BY <1>5 DEF RemoteHeard
  <2>2. Operation(TrackEvent(a))
    BY <2>1, GatewayAssumption DEF Operation
  <2>3. QED BY <2>1, <2>2, EditIs
<1>6. CASE UserNamesHub
  <2>1. PICK n \in HubNames : SetHubName(n) /\ Edit(HubEvent)
    BY <1>6 DEF UserNamesHub
  <2>2. Operation(HubEvent)
    BY <2>1 DEF Operation
  <2>3. QED BY <2>1, <2>2, EditIs
<1>7. QED BY <1>1, <1>2, <1>3, <1>4, <1>5, <1>6

LEMMA ImportStep ==
  ASSUME BackupOK, ImportApplies
  PROVE  Operates
<1>1. Entry \in Entries
  BY EntryType DEF ImportApplies
<1>2. Operation(EntryEvent(Entry))
  BY <1>1, AppliedIs DEF ImportApplies
<1>3. QED BY <1>2 DEF ImportApplies, Operates

LEMMA RestartsBoot ==
  ASSUME Restarts
  PROVE  Boots
<1>1. Unflushed \in SUBSET Keys /\ {} \in SUBSET Keys
  BY DEF Unflushed
<1>2. PICK S \in (IF observed = "store" THEN SUBSET Unflushed ELSE {{}, Unflushed}) : Restart(S)
  BY DEF Restarts
<1>3. S \in SUBSET Keys
  BY <1>1
<1>4. QED BY <1>2, <1>3 DEF Restarts, Boots

LEMMA GatewayParts ==
  ASSUME BackupOK, [Next]_vars
  PROVE  Parts
<1>1. CASE \/ UserUpserts \/ UserRemoves \/ UserUpsertsGroup \/ UserRemovesGroup
           \/ RemoteHeard \/ UserNamesHub
  BY <1>1, UserSteps DEF Parts
<1>2. CASE ImportApplies
  BY <1>2, ImportStep DEF Parts
<1>3. CASE Restarts
  BY <1>3, RestartsBoot DEF Parts
<1>4. CASE UserExports
  BY <1>4 DEF UserExports, ExportConfig, regVars, StoreStays, BrowserSteps, Parts
<1>5. CASE UserImports
  BY <1>5 DEF UserImports, StartImport, regVars, StoreStays, BrowserSteps, Parts
<1>6. CASE ImportSkips
  BY <1>6 DEF ImportSkips, regVars, StoreStays, BrowserSteps, Parts
<1>7. CASE Browser
  BY <1>7 DEF Browser, Toggle, regVars, StoreStays, BrowserSteps, Parts
<1>8. CASE Flushes
  BY <1>8 DEF Flushes, Flush, webVars, StoreStays, BrowserSteps, Parts
<1>9. CASE UNCHANGED vars
  BY <1>9 DEF vars, regVars, webVars, StoreStays, BrowserSteps, Parts
<1>10. CASE Adapters \/ LinkUp \/ LinkDown \/ LinkFound
  BY <1>10 DEF Adapters, LinkUp, LinkDown, LinkFound, regVars, webVars, StoreStays, BrokerSteps, Parts
<1>11. QED BY <1>1, <1>2, <1>3, <1>4, <1>5, <1>6, <1>7, <1>8, <1>9, <1>10 DEF Next

LEMMA GatewayStores ==
  ASSUME GatewayInv, [Next]_vars
  PROVE  StoreInv'
<1>1. CASE Operates
  BY <1>1, OperationNotifies DEF Operates, GatewayInv
<1>2. CASE Boots
  BY <1>2, RestartStore DEF Boots, GatewayInv
<1>3. CASE StoreStays
  <2>1. RegInv'
    BY <1>3, FlushInv, StepInv DEF GatewayInv, StoreInv, StoreStays
  <2>2. QED BY <1>3, <2>1 DEF GatewayInv, StoreInv, StoreStays, NoDoubles, OneType
<1>4. QED BY <1>1, <1>2, <1>3, GatewayParts DEF GatewayInv, Parts, BrokerSteps, BrowserSteps

LEMMA BackupStays ==
  ASSUME GatewayInv, [Next]_vars
  PROVE  BackupOK'
<1>1. CASE UserExports
  <2>1. backup' = Export /\ todo' = todo /\ todo = {}
    BY <1>1 DEF UserExports, ExportConfig, Idle
  <2>2. DOMAIN Export \subseteq Nat /\ \A k \in DOMAIN Export : Export[k] \in Entries
    BY ExportType DEF GatewayInv, StoreInv
  <2> HIDE DEF Export, Entries
  <2>3. QED BY <2>1, <2>2 DEF BackupOK
<1>2. CASE UserImports
  BY <1>2 DEF UserImports, StartImport, GatewayInv, BackupOK
<1>3. CASE ImportApplies \/ ImportSkips
  BY <1>3 DEF ImportApplies, ImportSkips, EntryDone, GatewayInv, BackupOK
<1>4. CASE Restarts
  BY <1>4 DEF Restarts, WebRestarts, GatewayInv, BackupOK
<1>5. CASE UNCHANGED <<backup, todo>>
  BY <1>5 DEF GatewayInv, BackupOK
<1>6. QED
  BY <1>1, <1>2, <1>3, <1>4, <1>5
     DEF Next, vars, webVars, UserUpserts, UserRemoves, UserUpsertsGroup, UserRemovesGroup,
         RemoteHeard, UserNamesHub, Edit, WebHears, Adapters, LinkUp, LinkDown, LinkFound,
         Browser, ClientOpens, ClientCloses, Toggle, Flushes

LEMMA GatewayInit == Init => GatewayInv
BY StoreInit DEF Init, WebInit, GatewayInv, BackupOK

LEMMA GatewayStep == GatewayInv /\ [Next]_vars => GatewayInv'
BY GatewayStores, BackupStays DEF GatewayInv

(* The invariant of the gateway: the registry's, no device or group in two *)
(* slots unless the last boot restored one twice, members that are alone   *)
(* at their addresses of one type, and a backup of well-formed entries     *)
(* (device_registry.cpp, handle_import_config_ of the web server).         *)
THEOREM GatewayInvariant == Spec => []GatewayInv
<1>1. QED BY GatewayInit, GatewayStep, PTL DEF Spec

----------------------------------------------------------------------------
(* Every step keeps what the browser shows in step with the registry.      *)
LEMMA ClientStays ==
  ASSUME GatewayInv, ClientMirrors, [Next]_vars
  PROVE  ClientMirrors'
<1>1. CASE Operates
  BY <1>1, OperationNotifies, ClientStep DEF Operates, GatewayInv
<1>2. CASE Boots
  BY <1>2 DEF Boots, WebRestarts, Closed, ClientMirrors
<1>3. CASE StoreStays /\ (ClientOpens \/ ClientCloses \/ UNCHANGED <<client, synced>>)
  <2>1. Shown' = Shown
    BY <1>3 DEF StoreStays, Shown
  <2>2. CASE ClientOpens
    BY <2>1, <2>2 DEF ClientOpens, ClientMirrors
  <2>3. CASE ClientCloses
    BY <2>3 DEF ClientCloses, Closed, ClientMirrors
  <2>4. CASE UNCHANGED <<client, synced>>
    BY <1>3, <2>1, <2>4 DEF StoreStays, ClientMirrors
  <2>5. QED BY <1>3, <2>2, <2>3, <2>4
<1>4. QED BY <1>1, <1>2, <1>3, GatewayParts DEF GatewayInv, Parts, BrokerSteps, BrowserSteps

(* What a browser shows is what the registry holds, through every edit,    *)
(* import, discovery and restart, unless the UI was disabled while it was  *)
(* connected or a boot restored something twice (device_upserted,          *)
(* device_removed, group_upserted, group_removed, build_config_json).      *)
THEOREM GatewayClient == Spec => []ClientMirrors
<1>1. Init => ClientMirrors
  BY DEF Init, WebInit, Closed, ClientMirrors
<1>2. GatewayInv /\ ClientMirrors /\ [Next]_vars => ClientMirrors'
  BY ClientStays
<1>3. QED BY <1>1, <1>2, GatewayInvariant, PTL DEF Spec

----------------------------------------------------------------------------
(* The parts of a wire, and what each operation on it makes of them.       *)
WireOK(w) ==
  w = [retained |-> [t \in Topics |-> w.retained[t]], subs |-> w.subs, gap |-> w.gap]

LEMMA RecordFields ==
  ASSUME NEW R, NEW S, NEW G, NEW w, w = [retained |-> R, subs |-> S, gap |-> G],
         NEW r, NEW s, NEW g
  PROVE  /\ [w EXCEPT !.retained = r] = [retained |-> r, subs |-> S, gap |-> G]
         /\ [w EXCEPT !.subs = s] = [retained |-> R, subs |-> s, gap |-> G]
         /\ [w EXCEPT !.gap = g] = [retained |-> R, subs |-> S, gap |-> g]
         /\ w.retained = R /\ w.subs = S /\ w.gap = G
OBVIOUS

LEMMA WireFields ==
  ASSUME NEW w, WireOK(w), NEW r, NEW s, NEW g
  PROVE  /\ [w EXCEPT !.retained = r] = [retained |-> r, subs |-> w.subs, gap |-> w.gap]
         /\ [w EXCEPT !.subs = s, !.gap = g] = [retained |-> w.retained, subs |-> s, gap |-> g]
         /\ [w EXCEPT !.gap = g] = [retained |-> w.retained, subs |-> w.subs, gap |-> g]
<1> DEFINE R == [t \in Topics |-> w.retained[t]]
           S == w.subs
           G == w.gap
           v == [w EXCEPT !.subs = s]
<1>1. w = [retained |-> R, subs |-> S, gap |-> G]
  BY DEF WireOK
<1> HIDE DEF R, S, G
<1>2. v = [retained |-> R, subs |-> s, gap |-> G] /\ w.retained = R /\ w.subs = S /\ w.gap = G
  BY <1>1, RecordFields
<1>3. [w EXCEPT !.subs = s, !.gap = g] = [v EXCEPT !.gap = g]
  OBVIOUS
<1> HIDE DEF v
<1>4. [v EXCEPT !.gap = g] = [retained |-> R, subs |-> s, gap |-> g]
  BY <1>2, RecordFields
<1>5. /\ [w EXCEPT !.retained = r] = [retained |-> r, subs |-> S, gap |-> G]
      /\ [w EXCEPT !.gap = g] = [retained |-> R, subs |-> S, gap |-> g]
  BY <1>1, RecordFields
<1>6. QED BY <1>2, <1>3, <1>4, <1>5

LEMMA WireMade ==
  ASSUME NEW r, NEW s, NEW g, NEW w, w = [retained |-> r, subs |-> s, gap |-> g]
  PROVE  w.retained = r /\ w.subs = s /\ w.gap = g
OBVIOUS

(* Retained messages are a function on the topics.                         *)
IsMap(r) == r = [t \in Topics |-> r[t]]

LEMMA WireIs ==
  ASSUME NEW r, NEW s, NEW g, NEW w, w = [retained |-> r, subs |-> s, gap |-> g], IsMap(r)
  PROVE  WireOK(w)
<1>1. w.retained = r /\ w.subs = s /\ w.gap = g
  OBVIOUS
<1>2. QED BY <1>1 DEF WireOK, IsMap

LEMMA WireMap ==
  ASSUME NEW w, WireOK(w)
  PROVE  IsMap(w.retained)
<1> DEFINE R == [t \in Topics |-> w.retained[t]]
           S == w.subs
           G == w.gap
<1>1. w = [retained |-> R, subs |-> S, gap |-> G]
  BY DEF WireOK
<1>2. R = [t \in Topics |-> R[t]]
  OBVIOUS
<1> HIDE DEF R, S, G
<1>3. w.retained = R
  BY <1>1
<1>4. QED BY <1>2, <1>3 DEF IsMap

LEMMA PutIs ==
  ASSUME NEW w, WireOK(w), NEW t, NEW p
  PROVE  /\ WireOK(Put(w, t, p))
         /\ Put(w, t, p).subs = w.subs /\ Put(w, t, p).gap = w.gap
         /\ \A u \in Topics :
              Put(w, t, p).retained[u] = IF link = "up" /\ u = t THEN p ELSE w.retained[u]
<1>1. CASE link = "up"
  <2> DEFINE r == [w.retained EXCEPT ![t] = p]
  <2>1. w.retained = [u \in Topics |-> w.retained[u]]
    BY WireMap DEF IsMap
  <2>2. IsMap(r) /\ \A u \in Topics : r[u] = IF u = t THEN p ELSE w.retained[u]
    BY <2>1 DEF IsMap
  <2>3. Put(w, t, p) = [w EXCEPT !.retained = r]
    BY <1>1 DEF Put
  <2> HIDE DEF r
  <2>4. Put(w, t, p) = [retained |-> r, subs |-> w.subs, gap |-> w.gap]
    BY <2>3, WireFields
  <2>5. WireOK(Put(w, t, p))
    BY <2>2, <2>4, WireIs
  <2>6. Put(w, t, p).retained = r /\ Put(w, t, p).subs = w.subs /\ Put(w, t, p).gap = w.gap
    BY <2>4, WireMade
  <2>7. QED BY <1>1, <2>2, <2>5, <2>6
<1>2. CASE link # "up"
  BY <1>2 DEF Put
<1>3. QED BY <1>1, <1>2

LEMMA WithdrawnIs ==
  ASSUME NEW w, WireOK(w), NEW T
  PROVE  /\ WireOK(Withdrawn(w, T))
         /\ Withdrawn(w, T).subs = w.subs /\ Withdrawn(w, T).gap = w.gap
         /\ \A t \in Topics : Withdrawn(w, T).retained[t] =
              IF link = "up" /\ t \in T THEN NoMessage ELSE w.retained[t]
<1> DEFINE r == [t \in Topics |-> IF link = "up" /\ t \in T THEN NoMessage ELSE w.retained[t]]
<1>1. Withdrawn(w, T) = [w EXCEPT !.retained = r]
  BY DEF Withdrawn
<1>2. IsMap(r) /\ \A t \in Topics : r[t] = IF link = "up" /\ t \in T THEN NoMessage ELSE w.retained[t]
  BY DEF IsMap
<1> HIDE DEF r
<1>3. Withdrawn(w, T) = [retained |-> r, subs |-> w.subs, gap |-> w.gap]
  BY <1>1, WireFields
<1>4. /\ WireOK(Withdrawn(w, T)) /\ Withdrawn(w, T).retained = r
      /\ Withdrawn(w, T).subs = w.subs /\ Withdrawn(w, T).gap = w.gap
  BY <1>2, <1>3, WireIs, WireMade
<1>5. QED BY <1>2, <1>4

LEMMA ListenIs ==
  ASSUME NEW w, WireOK(w), NEW T
  PROVE  /\ WireOK(Listen(w, T)) /\ Listen(w, T).retained = w.retained
         /\ Listen(w, T).subs = w.subs \cup T /\ Listen(w, T).gap = w.gap \ T
<1> DEFINE s == w.subs \cup T
           g == w.gap \ T
<1>1. Listen(w, T) = [w EXCEPT !.subs = s, !.gap = g]
  BY DEF Listen
<1> HIDE DEF s, g
<1>2. Listen(w, T) = [retained |-> w.retained, subs |-> s, gap |-> g]
  BY <1>1, WireFields
<1>3. IsMap(w.retained)
  BY WireMap
<1>4. WireOK(Listen(w, T)) /\ Listen(w, T).retained = w.retained
        /\ Listen(w, T).subs = s /\ Listen(w, T).gap = g
  BY <1>2, <1>3, WireIs, WireMade
<1>5. QED BY <1>4 DEF s, g

LEMMA MuteIs ==
  ASSUME NEW w, WireOK(w), NEW T
  PROVE  /\ WireOK(Mute(w, T)) /\ Mute(w, T).retained = w.retained
         /\ Mute(w, T).subs = w.subs \ T /\ Mute(w, T).gap = w.gap \ T
<1> DEFINE s == w.subs \ T
           g == w.gap \ T
<1>1. Mute(w, T) = [w EXCEPT !.subs = s, !.gap = g]
  BY DEF Mute
<1> HIDE DEF s, g
<1>2. Mute(w, T) = [retained |-> w.retained, subs |-> s, gap |-> g]
  BY <1>1, WireFields
<1>3. IsMap(w.retained)
  BY WireMap
<1>4. WireOK(Mute(w, T)) /\ Mute(w, T).retained = w.retained
        /\ Mute(w, T).subs = s /\ Mute(w, T).gap = g
  BY <1>2, <1>3, WireIs, WireMade
<1>5. QED BY <1>4 DEF s, g

(* The messages of M go to the topics that they name.                      *)
LEMMA PutAllIs ==
  ASSUME NEW w, WireOK(w), NEW M, DOMAIN M \subseteq Nat
  PROVE  /\ WireOK(PutAll(w, M))
         /\ PutAll(w, M).subs = w.subs /\ PutAll(w, M).gap = w.gap
         /\ \A t \in Topics : (\A k \in DOMAIN M : M[k].topic # t) =>
              PutAll(w, M).retained[t] = w.retained[t]
         /\ link = "up" => \A k \in DOMAIN M :
              (/\ M[k].topic \in Topics
               /\ \A l \in DOMAIN M : M[l].topic = M[k].topic => l = k)
              => PutAll(w, M).retained[M[k].topic] = M[k].payload
<1> DEFINE of(t) == {k \in DOMAIN M : M[k].topic = t}
           r == [t \in Topics |-> IF of(t) = {} THEN w.retained[t] ELSE M[Latest(of(t))].payload]
<1>1. CASE link = "up"
  <2>1. PutAll(w, M) = [w EXCEPT !.retained = r]
    BY <1>1 DEF PutAll
  <2>2. IsMap(r)
    BY DEF IsMap
  <2>3. \A t \in Topics : (\A k \in DOMAIN M : M[k].topic # t) => r[t] = w.retained[t]
    OBVIOUS
  <2>4. ASSUME NEW k \in DOMAIN M, M[k].topic \in Topics,
               \A l \in DOMAIN M : M[l].topic = M[k].topic => l = k
        PROVE  r[M[k].topic] = M[k].payload
    <3>1. of(M[k].topic) = {k}
      BY <2>4
    <3>2. Latest(of(M[k].topic)) = k
      BY <3>1, LatestOne
    <3>3. QED BY <2>4, <3>1, <3>2
  <2> HIDE DEF r
  <2>5. PutAll(w, M) = [retained |-> r, subs |-> w.subs, gap |-> w.gap]
    BY <2>1, WireFields
  <2>6. /\ WireOK(PutAll(w, M)) /\ PutAll(w, M).retained = r
        /\ PutAll(w, M).subs = w.subs /\ PutAll(w, M).gap = w.gap
    BY <2>2, <2>5, WireIs, WireMade
  <2>7. QED BY <2>3, <2>4, <2>6
<1>2. CASE link # "up"
  BY <1>2 DEF PutAll
<1>3. QED BY <1>1, <1>2

(* The groups that changed: their topics are cleared, then what is left of *)
(* them is announced again.                                                *)
LEMMA GroupsChangedIs ==
  ASSUME NEW w, WireOK(w), NEW ch, NEW ss, NEW name
  PROVE  LET after == GroupsChanged(w, ch, ss, name)
             shown(t) == t \in GroupTopics(DOMAIN ch) /\ GroupShown(ch, ss, t)
             cmds == {CommandTopic(id) : id \in DOMAIN ch}
         IN /\ WireOK(after)
            /\ \A t \in Topics :
                 after.retained[t] =
                   IF link = "up" /\ shown(t) THEN GroupPayload(t[1], ch[t[2]], ss, name)
                   ELSE IF link = "up" /\ t \in GroupTopics(DOMAIN ch) THEN NoMessage
                   ELSE w.retained[t]
            /\ w.subs \cup w.gap \subseteq after.subs \cup after.gap \cup cmds
<1> DEFINE after == GroupsChanged(w, ch, ss, name)
           clear == GroupsCleared(w, DOMAIN ch)
           cmds == {CommandTopic(id) : id \in DOMAIN ch}
           shown == {t \in GroupTopics(DOMAIN ch) : GroupShown(ch, ss, t)}
           w1 == Withdrawn(w, GroupTopics(DOMAIN ch))
           r2 == [t \in Topics |-> IF link = "up" /\ t \in shown
                                   THEN GroupPayload(t[1], ch[t[2]], ss, name)
                                   ELSE clear.retained[t]]
           w2 == [clear EXCEPT !.retained = r2]
           heard == {CommandTopic(t[2]) : t \in shown}
<1>1. clear = Mute(w1, cmds)
  BY DEF GroupsCleared
<1>2. after = Listen(w2, heard)
  BY DEF GroupsChanged
<1>3. IsMap(r2)
  BY DEF IsMap
<1>4. /\ WireOK(w1) /\ w1.subs = w.subs /\ w1.gap = w.gap
      /\ \A t \in Topics : w1.retained[t] =
           IF link = "up" /\ t \in GroupTopics(DOMAIN ch) THEN NoMessage ELSE w.retained[t]
  BY WithdrawnIs
<1>5. /\ WireOK(clear) /\ clear.retained = w1.retained
      /\ clear.subs = w.subs \ cmds /\ clear.gap = w.gap \ cmds
  <2> HIDE DEF w1, cmds, clear
  <2>1. QED BY <1>1, <1>4, MuteIs
<1>6. /\ WireOK(w2) /\ w2.retained = r2 /\ w2.subs = clear.subs /\ w2.gap = clear.gap
  <2> HIDE DEF r2, clear
  <2>1. w2 = [retained |-> r2, subs |-> clear.subs, gap |-> clear.gap]
    BY <1>5, WireFields
  <2> HIDE DEF w2
  <2>2. QED BY <1>3, <2>1, WireIs, WireMade
<1>7. /\ WireOK(after) /\ after.retained = r2
      /\ after.subs = clear.subs \cup heard /\ after.gap = clear.gap \ heard
  <2> HIDE DEF w2, heard, clear, r2, after
  <2>1. QED BY <1>2, <1>6, ListenIs
<1>8. w.subs \cup w.gap \subseteq after.subs \cup after.gap \cup cmds
  BY <1>5, <1>7
<1>9. \A t \in Topics :
        after.retained[t] =
          IF link = "up" /\ t \in shown THEN GroupPayload(t[1], ch[t[2]], ss, name)
          ELSE IF link = "up" /\ t \in GroupTopics(DOMAIN ch) THEN NoMessage
          ELSE w.retained[t]
  <2> HIDE DEF after, clear, w1
  <2>1. \A t \in Topics :
          r2[t] = IF link = "up" /\ t \in shown THEN GroupPayload(t[1], ch[t[2]], ss, name)
                  ELSE w1.retained[t]
    BY <1>5
  <2> HIDE DEF r2, shown
  <2>2. QED BY <1>4, <1>7, <2>1
<1> HIDE DEF after, clear
<1>10. QED BY <1>7, <1>8, <1>9 DEF after

----------------------------------------------------------------------------
(* The topics that are subscribed to, or that a device was announced       *)
(* without.                                                                *)
Reached(w) == w.subs \cup w.gap

LEMMA AnnounceIs ==
  ASSUME NEW w, NEW c \in Config
  PROVE  Announce(w, c) = Put(w, TopicOf(c), c)
<1>1. c.type \in Types
  BY DEF Config
<1>2. QED BY <1>1 DEF Types, Announce, AnnounceCover, AnnounceLight, AnnounceRemote

LEMMA DeviceAddedIs ==
  ASSUME NEW w, WireOK(w), NEW d \in Device
  PROVE  LET after == DeviceAdded(w, d)
             T == TopicOf(d.cfg)
             C == CommandsOf(d.cfg)
         IN /\ WireOK(after)
            /\ d.cfg.enabled /\ d.saved =>
                 /\ \A t \in Topics : after.retained[t] =
                      IF link = "up" /\ t = T THEN d.cfg ELSE w.retained[t]
                 /\ Reached(after) = Reached(w) \cup C
            /\ ~(d.cfg.enabled /\ d.saved) => after = w
<1> DEFINE shown == Put(w, TopicOf(d.cfg), d.cfg)
           C == CommandsOf(d.cfg)
           T == TopicOf(d.cfg)
           after == DeviceAdded(w, d)
<1>1. CASE d.cfg.enabled /\ d.saved
  <2>1. Announce(w, d.cfg) = shown
    BY AnnounceIs DEF Device
  <2>2. DeviceAdded(w, d) = Listen(shown, C)
    BY <1>1, <2>1 DEF DeviceAdded, Subscribe
  <2>3. /\ WireOK(shown) /\ shown.subs = w.subs /\ shown.gap = w.gap
        /\ \A t \in Topics :
             shown.retained[t] = IF link = "up" /\ t = T THEN d.cfg ELSE w.retained[t]
    BY PutIs
  <2> HIDE DEF shown, C, T, after
  <2>4. /\ WireOK(Listen(shown, C)) /\ Listen(shown, C).retained = shown.retained
        /\ Listen(shown, C).subs = shown.subs \cup C /\ Listen(shown, C).gap = shown.gap \ C
    BY <2>3, ListenIs
  <2>5. Reached(Listen(shown, C)) = Reached(w) \cup C
    BY <2>3, <2>4 DEF Reached
  <2>6. QED BY <1>1, <2>2, <2>3, <2>4, <2>5 DEF after, C, T
<1>2. CASE ~(d.cfg.enabled /\ d.saved)
  BY <1>2 DEF DeviceAdded
<1>3. QED BY <1>1, <1>2

LEMMA DeviceRemovedIs ==
  ASSUME NEW w, WireOK(w), NEW d
  PROVE  LET after == DeviceRemoved(w, d)
             T == TopicOf(d.cfg)
             C == CommandsOf(d.cfg)
         IN /\ WireOK(after)
            /\ \A t \in Topics : after.retained[t] =
                 IF link = "up" /\ t = T THEN NoMessage ELSE w.retained[t]
            /\ Reached(w) \subseteq Reached(after) \cup C
<1> DEFINE hidden == Put(w, TopicOf(d.cfg), NoMessage)
           C == CommandsOf(d.cfg)
           T == TopicOf(d.cfg)
<1>1. DeviceRemoved(w, d) = Mute(hidden, C)
  BY DEF DeviceRemoved
<1>2. /\ WireOK(hidden) /\ hidden.subs = w.subs /\ hidden.gap = w.gap
      /\ \A t \in Topics :
           hidden.retained[t] = IF link = "up" /\ t = T THEN NoMessage ELSE w.retained[t]
  BY PutIs
<1> HIDE DEF hidden, C, T
<1>3. /\ WireOK(Mute(hidden, C)) /\ Mute(hidden, C).retained = hidden.retained
      /\ Mute(hidden, C).subs = hidden.subs \ C /\ Mute(hidden, C).gap = hidden.gap \ C
  BY <1>2, MuteIs
<1>4. Reached(w) \subseteq Reached(Mute(hidden, C)) \cup C
  BY <1>2, <1>3 DEF Reached
<1>5. QED BY <1>1, <1>2, <1>3, <1>4 DEF C, T

LEMMA ConfigChangedIs ==
  ASSUME NEW w, WireOK(w), NEW d \in Device, d.cfg.enabled
  PROVE  LET after == ConfigChanged(w, d)
             T == TopicOf(d.cfg)
             C == CommandsOf(d.cfg)
         IN /\ WireOK(after)
            /\ \A t \in Topics : after.retained[t] =
                 IF link = "up" /\ t = T THEN d.cfg ELSE w.retained[t]
            /\ Reached(after) = Reached(w) \cup C
<1> DEFINE shown == Put(w, TopicOf(d.cfg), d.cfg)
           C == CommandsOf(d.cfg)
           T == TopicOf(d.cfg)
           g == w.gap \cup (C \ w.subs)
           after == ConfigChanged(w, d)
<1>1. Announce(w, d.cfg) = shown
  BY AnnounceIs DEF Device
<1>2. after = [shown EXCEPT !.gap = g]
  BY <1>1 DEF ConfigChanged
<1>3. /\ WireOK(shown) /\ shown.subs = w.subs /\ shown.gap = w.gap
      /\ \A t \in Topics :
           shown.retained[t] = IF link = "up" /\ t = T THEN d.cfg ELSE w.retained[t]
  BY PutIs
<1> HIDE DEF shown, T, after, g
<1>4. after = [retained |-> shown.retained, subs |-> shown.subs, gap |-> g]
  BY <1>2, <1>3, WireFields
<1>5. IsMap(shown.retained)
  BY <1>3, WireMap
<1>6. WireOK(after) /\ after.retained = shown.retained /\ after.subs = shown.subs /\ after.gap = g
  BY <1>4, <1>5, WireIs, WireMade
<1>7. Reached(after) = Reached(w) \cup C
  BY <1>3, <1>6 DEF Reached, g
<1>8. QED BY <1>3, <1>6, <1>7 DEF after, T

(* What the adapter makes of each notification.                            *)
LEMMA HandlePlaced ==
  ASSUME WireOK(wire), NEW e, NEW i, NEW dev, Placed(i, dev), e.dev = dev,
         e.kind = IF slots[i] = NoDevice THEN "added" ELSE "config"
  PROVE  LET after == Handle(wire, e)
             T == TopicOf(dev.cfg)
             C == CommandsOf(dev.cfg)
         IN /\ WireOK(after)
            /\ \A t \in Topics : t # T => after.retained[t] = wire.retained[t]
            /\ T \in Topics /\ link = "up" =>
                 /\ dev.cfg.enabled /\ dev.saved => after.retained[T] = dev.cfg
                 /\ ~dev.cfg.enabled => \/ after.retained[T] = NoMessage
                                        \/ /\ slots[i] = NoDevice
                                           /\ after.retained[T] = wire.retained[T]
            /\ dev.cfg.enabled /\ dev.saved => C \subseteq Reached(after)
            /\ Reached(wire) \subseteq Reached(after) \cup C
<1>1. dev \in Device
  BY DEF Placed
<1>2. CASE e.kind = "added" /\ slots[i] = NoDevice
  <2>1. Handle(wire, e) = DeviceAdded(wire, dev)
    BY <1>2 DEF Handle
  <2>2. CASE dev.cfg.enabled /\ dev.saved
    BY <1>1, <2>1, <2>2, DeviceAddedIs
  <2>3. CASE ~(dev.cfg.enabled /\ dev.saved)
    BY <1>1, <1>2, <2>1, <2>3, DeviceAddedIs
  <2>4. QED BY <2>2, <2>3
<1>3. CASE e.kind = "config" /\ dev.cfg.enabled
  <2>1. Handle(wire, e) = ConfigChanged(wire, dev)
    BY <1>3 DEF Handle
  <2>2. QED BY <1>1, <1>3, <2>1, ConfigChangedIs
<1>4. CASE e.kind = "config" /\ ~dev.cfg.enabled
  <2>1. Handle(wire, e) = DeviceRemoved(wire, dev)
    BY <1>4 DEF Handle, ConfigChanged
  <2> DEFINE after == Handle(wire, e)
             T == TopicOf(dev.cfg)
             C == CommandsOf(dev.cfg)
  <2>2. /\ WireOK(after)
        /\ \A t \in Topics :
             after.retained[t] = IF link = "up" /\ t = T THEN NoMessage ELSE wire.retained[t]
        /\ Reached(wire) \subseteq Reached(after) \cup C
    BY <2>1, DeviceRemovedIs
  <2> HIDE DEF after, T, C
  <2>3. QED BY <1>4, <2>2 DEF after, T, C
<1>5. QED BY <1>2, <1>3, <1>4

GroupCommands(ids) == {CommandTopic(id) : id \in ids}

LEMMA HandleEmptied ==
  ASSUME WireOK(wire), NEW e, NEW d, e.kind = "removed", e.dev = d
  PROVE  LET after == Handle(wire, e)
             shown(t) == t \in GroupTopics(DOMAIN e.changes) /\ GroupShown(e.changes, slots', t)
         IN /\ WireOK(after)
            /\ link = "up" => \A t \in Topics : after.retained[t] =
                 IF shown(t) THEN GroupPayload(t[1], e.changes[t[2]], slots', hub')
                 ELSE IF t \in GroupTopics(DOMAIN e.changes) \/ t = TopicOf(d.cfg) THEN NoMessage
                 ELSE wire.retained[t]
            /\ Reached(wire) \subseteq
                 Reached(after) \cup CommandsOf(d.cfg) \cup GroupCommands(DOMAIN e.changes)
<1> DEFINE w == DeviceRemoved(wire, d)
           after == GroupsChanged(w, e.changes, slots', hub')
           shown(t) == t \in GroupTopics(DOMAIN e.changes) /\ GroupShown(e.changes, slots', t)
           old(t) == link = "up" /\ t = TopicOf(d.cfg)
<1>1. Handle(wire, e) = after
  BY DEF Handle
<1>2. /\ WireOK(w)
      /\ \A t \in Topics : w.retained[t] = IF old(t) THEN NoMessage ELSE wire.retained[t]
      /\ Reached(wire) \subseteq Reached(w) \cup CommandsOf(d.cfg)
  BY DeviceRemovedIs
<1> HIDE DEF w
<1>3. /\ WireOK(after)
      /\ \A t \in Topics :
           after.retained[t] =
             IF link = "up" /\ shown(t) THEN GroupPayload(t[1], e.changes[t[2]], slots', hub')
             ELSE IF link = "up" /\ t \in GroupTopics(DOMAIN e.changes) THEN NoMessage
             ELSE w.retained[t]
      /\ Reached(w) \subseteq Reached(after) \cup GroupCommands(DOMAIN e.changes)
  BY <1>2, GroupsChangedIs DEF Reached, GroupCommands
<1> HIDE DEF after, shown
<1>4. link = "up" => \A t \in Topics : after.retained[t] =
                 IF shown(t) THEN GroupPayload(t[1], e.changes[t[2]], slots', hub')
                 ELSE IF t \in GroupTopics(DOMAIN e.changes) \/ t = TopicOf(d.cfg) THEN NoMessage
                 ELSE wire.retained[t]
  BY <1>2, <1>3
<1>5. Reached(wire) \subseteq
        Reached(after) \cup CommandsOf(d.cfg) \cup GroupCommands(DOMAIN e.changes)
  BY <1>2, <1>3
<1>6. QED BY <1>1, <1>3, <1>4, <1>5 DEF shown

LEMMA HandleGrouped ==
  ASSUME WireOK(wire), NEW e, e.kind = "groups"
  PROVE  LET after == Handle(wire, e)
             shown(t) == t \in GroupTopics(DOMAIN e.changes) /\ GroupShown(e.changes, slots', t)
         IN /\ WireOK(after)
            /\ link = "up" => \A t \in Topics : after.retained[t] =
                 IF shown(t) THEN GroupPayload(t[1], e.changes[t[2]], slots', hub')
                 ELSE IF t \in GroupTopics(DOMAIN e.changes) THEN NoMessage
                 ELSE wire.retained[t]
            /\ Reached(wire) \subseteq Reached(after) \cup GroupCommands(DOMAIN e.changes)
<1> DEFINE after == GroupsChanged(wire, e.changes, slots', hub')
           shown(t) == t \in GroupTopics(DOMAIN e.changes) /\ GroupShown(e.changes, slots', t)
<1>1. Handle(wire, e) = after
  BY DEF Handle
<1>2. /\ WireOK(after)
      /\ \A t \in Topics :
           after.retained[t] =
             IF link = "up" /\ shown(t) THEN GroupPayload(t[1], e.changes[t[2]], slots', hub')
             ELSE IF link = "up" /\ t \in GroupTopics(DOMAIN e.changes) THEN NoMessage
             ELSE wire.retained[t]
      /\ Reached(wire) \subseteq Reached(after) \cup GroupCommands(DOMAIN e.changes)
  BY GroupsChangedIs DEF Reached, GroupCommands
<1> HIDE DEF after, shown
<1>3. QED BY <1>1, <1>2 DEF shown

----------------------------------------------------------------------------
(* The two messages of every group of one type.                            *)
Kinds == {"config", "attributes"}

LEMMA GroupMessagesAre ==
  ASSUME NEW kind, NEW gs, NEW ss, NEW name
  PROVE  LET M == GroupMessages(kind, gs, ss, name)
         IN /\ DOMAIN M = TypedIn(gs, ss) /\ DOMAIN M \subseteq Nat
            /\ \A g \in TypedIn(gs, ss) :
                 /\ M[g].topic = GroupTopicOf(kind, gs[g], ss)
                 /\ M[g].payload = GroupPayload(kind, gs[g], ss, name)
BY SlotsAreNat DEF GroupMessages, TypedIn

LEMMA GroupsPublishedIs ==
  ASSUME NEW w, WireOK(w), NEW gs, NEW ss, NEW name
  PROVE  LET after == GroupsPublished(w, gs, ss, name)
             T(kind, g) == GroupTopicOf(kind, gs[g], ss)
         IN /\ WireOK(after) /\ after.subs = w.subs /\ after.gap = w.gap
            /\ \A t \in Topics :
                 (\A kind \in Kinds, g \in TypedIn(gs, ss) : t # T(kind, g)) =>
                   after.retained[t] = w.retained[t]
            /\ link = "up" => \A kind \in Kinds, g \in TypedIn(gs, ss) :
                 (/\ T(kind, g) \in Topics
                  /\ \A other \in Kinds, h \in TypedIn(gs, ss) :
                       T(other, h) = T(kind, g) => other = kind /\ h = g)
                 => after.retained[T(kind, g)] = GroupPayload(kind, gs[g], ss, name)
<1> DEFINE C == GroupMessages("config", gs, ss, name)
           A == GroupMessages("attributes", gs, ss, name)
           w1 == PutAll(w, C)
           after == GroupsPublished(w, gs, ss, name)
           T(kind, g) == GroupTopicOf(kind, gs[g], ss)
           P(kind, g) == GroupPayload(kind, gs[g], ss, name)
           G == TypedIn(gs, ss)
<1>1. /\ DOMAIN C = G /\ DOMAIN C \subseteq Nat
      /\ \A g \in G : C[g].topic = T("config", g) /\ C[g].payload = P("config", g)
      /\ DOMAIN A = G /\ DOMAIN A \subseteq Nat
      /\ \A g \in G : A[g].topic = T("attributes", g) /\ A[g].payload = P("attributes", g)
  BY GroupMessagesAre
<1>2. after = PutAll(w1, A)
  BY DEF GroupsPublished
<1> HIDE DEF C, A, G, T, P, after
<1>3. /\ WireOK(w1) /\ w1.subs = w.subs /\ w1.gap = w.gap
      /\ \A t \in Topics : (\A k \in DOMAIN C : C[k].topic # t) => w1.retained[t] = w.retained[t]
      /\ link = "up" => \A k \in DOMAIN C :
           (/\ C[k].topic \in Topics
            /\ \A l \in DOMAIN C : C[l].topic = C[k].topic => l = k)
           => w1.retained[C[k].topic] = C[k].payload
  BY <1>1, PutAllIs
<1> HIDE DEF w1
<1>4. /\ WireOK(after) /\ after.subs = w1.subs /\ after.gap = w1.gap
      /\ \A t \in Topics : (\A k \in DOMAIN A : A[k].topic # t) => after.retained[t] = w1.retained[t]
      /\ link = "up" => \A k \in DOMAIN A :
           (/\ A[k].topic \in Topics
            /\ \A l \in DOMAIN A : A[l].topic = A[k].topic => l = k)
           => after.retained[A[k].topic] = A[k].payload
  BY <1>1, <1>2, <1>3, PutAllIs
<1>5. \A t \in Topics : (\A kind \in Kinds, g \in G : t # T(kind, g)) =>
        after.retained[t] = w.retained[t]
  BY <1>1, <1>3, <1>4 DEF Kinds
<1>6. ASSUME link = "up", NEW g \in G, T("attributes", g) \in Topics,
             \A h \in G : T("attributes", h) = T("attributes", g) => h = g
      PROVE  after.retained[T("attributes", g)] = P("attributes", g)
  BY <1>1, <1>4, <1>6
<1>7. ASSUME link = "up", NEW g \in G, T("config", g) \in Topics,
             \A h \in G : T("config", h) = T("config", g) => h = g,
             \A h \in G : T("attributes", h) # T("config", g)
      PROVE  after.retained[T("config", g)] = P("config", g)
  <2>1. w1.retained[T("config", g)] = P("config", g)
    BY <1>1, <1>3, <1>7
  <2>2. QED BY <1>1, <1>4, <1>7, <2>1
<1>8. ASSUME link = "up", NEW kind \in Kinds, NEW g \in G, T(kind, g) \in Topics,
             \A other \in Kinds, h \in G : T(other, h) = T(kind, g) => other = kind /\ h = g
      PROVE  after.retained[T(kind, g)] = P(kind, g)
  <2>1. CASE kind = "attributes"
    BY <1>6, <1>8, <2>1
  <2>2. CASE kind = "config"
    <3>1. "attributes" \in Kinds /\ "attributes" # "config"
      BY DEF Kinds
    <3>2. QED BY <1>7, <1>8, <2>2, <3>1
  <2>3. QED BY <2>1, <2>2 DEF Kinds
<1>9. after.subs = w.subs /\ after.gap = w.gap
  BY <1>3, <1>4
<1>10. QED BY <1>4, <1>5, <1>8, <1>9 DEF T, P, G, after

LEMMA HandleHub ==
  ASSUME WireOK(wire), NEW e, e.kind = "hub"
  PROVE  LET after == Handle(wire, e)
             G == TypedIn(groups', slots')
             T(kind, g) == GroupTopicOf(kind, groups'[g], slots')
         IN /\ WireOK(after)
            /\ Reached(after) = Reached(wire)
            /\ \A t \in Topics : t # Gateway /\ (\A kind \in Kinds, g \in G : t # T(kind, g)) =>
                 after.retained[t] = wire.retained[t]
            /\ link = "up" => \A kind \in Kinds, g \in G :
                 (/\ T(kind, g) \in Topics
                  /\ \A other \in Kinds, h \in G :
                       T(other, h) = T(kind, g) => other = kind /\ h = g)
                 => after.retained[T(kind, g)] = GroupPayload(kind, groups'[g], slots', hub')
            /\ link = "up" /\ (\A kind \in Kinds, g \in G : Gateway # T(kind, g)) =>
                 after.retained[Gateway] = [hub |-> hub']
<1> DEFINE p == [hub |-> hub']
           w == Put(wire, Gateway, p)
           after == Handle(wire, e)
           G == TypedIn(groups', slots')
           T(kind, g) == GroupTopicOf(kind, groups'[g], slots')
           P(kind, g) == GroupPayload(kind, groups'[g], slots', hub')
<1>1. after = GroupsPublished(w, groups', slots', hub')
  BY DEF Handle, HubRenamed
<1>2. Gateway \in Topics
  BY DEF Topics
<1> HIDE DEF after, p
<1>3. /\ WireOK(w) /\ w.subs = wire.subs /\ w.gap = wire.gap
      /\ \A t \in Topics : w.retained[t] = IF link = "up" /\ t = Gateway THEN p ELSE wire.retained[t]
  BY PutIs
<1> HIDE DEF w
<1>4. /\ WireOK(after) /\ after.subs = w.subs /\ after.gap = w.gap
      /\ \A t \in Topics : (\A kind \in Kinds, g \in G : t # T(kind, g)) =>
           after.retained[t] = w.retained[t]
      /\ link = "up" => \A kind \in Kinds, g \in G :
           (/\ T(kind, g) \in Topics
            /\ \A other \in Kinds, h \in G : T(other, h) = T(kind, g) => other = kind /\ h = g)
           => after.retained[T(kind, g)] = P(kind, g)
  BY <1>1, <1>3, GroupsPublishedIs
<1> HIDE DEF G, T, P
<1>5. Reached(after) = Reached(wire)
  BY <1>3, <1>4 DEF Reached
<1>6. /\ \A t \in Topics : t # Gateway /\ (\A kind \in Kinds, g \in G : t # T(kind, g)) =>
           after.retained[t] = wire.retained[t]
      /\ link = "up" /\ (\A kind \in Kinds, g \in G : Gateway # T(kind, g)) =>
           after.retained[Gateway] = p
  BY <1>2, <1>3, <1>4
<1>7. QED BY <1>4, <1>5, <1>6 DEF after, p, G, T, P

(* The end of the collection: what was collected and is not expected is    *)
(* withdrawn, then everything is published again.                          *)
LEMMA FinishIs ==
  ASSUME WireOK(wire), NEW collected, FinishCleanup(collected)
  PROVE  LET D == DeviceMessages
             T(kind, g) == GroupTopicOf(kind, groups[g], slots)
             grouped(t) == \E kind \in Kinds, g \in TypedGroups : t = T(kind, g)
             placed(t) == \E k \in DOMAIN D : t = D[k].topic
         IN /\ WireOK(wire')
            /\ CommandTopics \subseteq Reached(wire')
            /\ link = "up" => \A t \in Topics :
                 t # Gateway /\ ~grouped(t) /\ ~placed(t) =>
                   wire'.retained[t] = IF t \in StaleTopics(collected) THEN NoMessage
                                       ELSE wire.retained[t]
            /\ link = "up" => \A kind \in Kinds, g \in TypedGroups :
                 (/\ T(kind, g) \in Topics
                  /\ \A other \in Kinds, h \in TypedGroups :
                       T(other, h) = T(kind, g) => other = kind /\ h = g)
                 => wire'.retained[T(kind, g)] = GroupPayload(kind, groups[g], slots, hub)
            /\ link = "up" => \A k \in DOMAIN D :
                 (/\ D[k].topic \in Topics /\ ~grouped(D[k].topic)
                  /\ \A l \in DOMAIN D : D[l].topic = D[k].topic => l = k)
                 => wire'.retained[D[k].topic] = D[k].payload
            /\ link = "up" /\ ~grouped(Gateway) /\ ~placed(Gateway) =>
                 wire'.retained[Gateway] = [hub |-> hub]
<1> DEFINE D == DeviceMessages
           T(kind, g) == GroupTopicOf(kind, groups[g], slots)
           P(kind, g) == GroupPayload(kind, groups[g], slots, hub)
           grouped(t) == \E kind \in Kinds, g \in TypedGroups : t = T(kind, g)
           placed(t) == \E k \in DOMAIN D : t = D[k].topic
           p == [hub |-> hub]
           S == StaleTopics(collected)
           w0 == Withdrawn(wire, S)
           w1 == Put(w0, Gateway, p)
           w2 == PutAll(w1, D)
           w3 == GroupsPublished(w2, groups, slots, hub)
           s == w0.subs \cup CommandTopics
           none == {}
<1>1. wire' = [w3 EXCEPT !.subs = s, !.gap = none]
  BY DEF FinishCleanup, Republished
<1>2. DOMAIN D \subseteq Nat
  BY SlotsAreNat DEF DeviceMessages, Announced
<1>3. Gateway \in Topics
  BY DEF Topics
<1> HIDE DEF D, p, S
<1>4. /\ WireOK(w0)
      /\ \A t \in Topics : w0.retained[t] =
           IF link = "up" /\ t \in S THEN NoMessage ELSE wire.retained[t]
  BY WithdrawnIs
<1> HIDE DEF w0
<1>5. /\ WireOK(w1)
      /\ \A t \in Topics : w1.retained[t] = IF link = "up" /\ t = Gateway THEN p ELSE w0.retained[t]
  BY <1>4, PutIs
<1> HIDE DEF w1
<1>6. /\ WireOK(w2)
      /\ \A t \in Topics : (\A k \in DOMAIN D : D[k].topic # t) => w2.retained[t] = w1.retained[t]
      /\ link = "up" => \A k \in DOMAIN D :
           (/\ D[k].topic \in Topics
            /\ \A l \in DOMAIN D : D[l].topic = D[k].topic => l = k)
           => w2.retained[D[k].topic] = D[k].payload
  BY <1>2, <1>5, PutAllIs
<1> HIDE DEF w2
<1>7. /\ WireOK(w3)
      /\ \A t \in Topics : (\A kind \in Kinds, g \in TypedGroups : t # T(kind, g)) =>
           w3.retained[t] = w2.retained[t]
      /\ link = "up" => \A kind \in Kinds, g \in TypedGroups :
           (/\ T(kind, g) \in Topics
            /\ \A other \in Kinds, h \in TypedGroups :
                 T(other, h) = T(kind, g) => other = kind /\ h = g)
           => w3.retained[T(kind, g)] = P(kind, g)
  BY <1>6, GroupsPublishedIs DEF TypedGroups
<1> HIDE DEF w3, s, none, T, P
<1>8. WireOK(wire') /\ wire'.retained = w3.retained /\ wire'.subs = s
  <2>1. wire' = [retained |-> w3.retained, subs |-> s, gap |-> none]
    BY <1>1, <1>7, WireFields
  <2>2. IsMap(w3.retained)
    BY <1>7, WireMap
  <2>3. QED BY <2>1, <2>2, WireIs, WireMade
<1>9. CommandTopics \subseteq Reached(wire')
  BY <1>8 DEF Reached, s
<1>10. link = "up" => \A t \in Topics :
         t # Gateway /\ ~grouped(t) /\ ~placed(t) =>
           wire'.retained[t] = IF t \in S THEN NoMessage ELSE wire.retained[t]
  BY <1>4, <1>5, <1>6, <1>7, <1>8
<1>11. link = "up" => \A kind \in Kinds, g \in TypedGroups :
         (/\ T(kind, g) \in Topics
          /\ \A other \in Kinds, h \in TypedGroups :
               T(other, h) = T(kind, g) => other = kind /\ h = g)
         => wire'.retained[T(kind, g)] = P(kind, g)
  BY <1>7, <1>8
<1>12. link = "up" => \A k \in DOMAIN D :
         (/\ D[k].topic \in Topics /\ ~grouped(D[k].topic)
          /\ \A l \in DOMAIN D : D[l].topic = D[k].topic => l = k)
         => wire'.retained[D[k].topic] = D[k].payload
  BY <1>6, <1>7, <1>8
<1>13. link = "up" /\ ~grouped(Gateway) /\ ~placed(Gateway) => wire'.retained[Gateway] = p
  BY <1>3, <1>5, <1>6, <1>7, <1>8
<1>14. QED BY <1>8, <1>9, <1>10, <1>11, <1>12, <1>13 DEF D, p, S, T, P

----------------------------------------------------------------------------
(* Two devices that differ in type or address take commands on different   *)
(* topics, and neither on those of a group.                                *)
LEMMA CommandsApart ==
  ASSUME NEW c \in Config, NEW d \in Config, c.addr # d.addr \/ c.type # d.type
  PROVE  CommandsOf(c) \cap CommandsOf(d) = {}
<1>1. c.type \in Types /\ d.type \in Types
  BY DEF Config
<1>2. CASE c.addr # d.addr
  BY <1>1, <1>2 DEF Types, CommandsOf, CoverCommands, LightCommands
<1>3. CASE c.type # d.type
  BY <1>1, <1>3 DEF Types, CommandsOf, CoverCommands, LightCommands
<1>4. QED BY <1>2, <1>3

LEMMA CommandsNotGroups ==
  ASSUME NEW c \in Config, NEW ids
  PROVE  CommandsOf(c) \cap GroupCommands(ids) = {}
<1>1. c.type \in Types
  BY DEF Config
<1>2. QED BY <1>1 DEF Types, CommandsOf, CoverCommands, LightCommands, GroupCommands, CommandTopic

Heard ==
  is_connected /\ cleanup = "DONE" /\ ~doubled =>
    \A i \in Announced : slots[i].saved => CommandsOf(slots[i].cfg) \subseteq Reached(wire)

(* loop() has seen every outage before the next connection.                *)
Outage == ~connected => cleanup = "IDLE"

LEMMA NotifiedHeard ==
  ASSUME StoreInv, WireOK(wire), Heard, NEW e, Notified(e), MqttHears(e)
  PROVE  WireOK(wire') /\ Heard'
<1>1. link' = link /\ cleanup' = cleanup
  BY DEF MqttHears
<1>2. CASE ~is_connected
  BY <1>1, <1>2 DEF MqttHears, is_connected, Heard
<1>3. CASE is_connected
  <2>1. wire' = Handle(wire, e)
    BY <1>3 DEF MqttHears
  <2>2. SUFFICES WireOK(wire') /\ (cleanup = "DONE" /\ ~doubled' => 
          \A i \in Announced' : slots'[i].saved => CommandsOf(slots'[i].cfg) \subseteq Reached(wire'))
    BY <1>1 DEF Heard
  <2>3. cleanup = "DONE" /\ ~doubled =>
          \A i \in Announced : slots[i].saved => CommandsOf(slots[i].cfg) \subseteq Reached(wire)
    BY <1>3 DEF Heard
  <2>4. \A j \in Slots : slots[j] # NoDevice => slots[j] \in Device /\ slots[j].cfg \in Config
    BY DEF StoreInv, RegInv, RegTypeOK, Device
  <2>5. ASSUME NEW i, NEW dev, Placed(i, dev), e.dev = dev,
               e.kind = IF slots[i] = NoDevice THEN "added" ELSE "config"
        PROVE  WireOK(wire') /\ (cleanup = "DONE" /\ ~doubled' =>
          \A k \in Announced' : slots'[k].saved => CommandsOf(slots'[k].cfg) \subseteq Reached(wire'))
    <3> DEFINE C == CommandsOf(dev.cfg)
    <3>1. /\ WireOK(wire')
          /\ dev.cfg.enabled /\ dev.saved => C \subseteq Reached(wire')
          /\ Reached(wire) \subseteq Reached(wire') \cup C
      BY <2>1, <2>5, HandlePlaced
    <3>2. SUFFICES ASSUME cleanup = "DONE", ~doubled, NEW k \in Announced', slots'[k].saved
                   PROVE  CommandsOf(slots'[k].cfg) \subseteq Reached(wire')
      BY <2>5, <3>1 DEF Placed
    <3>3. CASE k = i
      BY <2>5, <3>1, <3>2, <3>3 DEF Placed, Announced
    <3>4. CASE k # i
      <4>1. k \in Slots /\ slots'[k] = slots[k] /\ k \in Announced /\ slots[k].saved
        BY <2>5, <3>2, <3>4 DEF Placed, Announced
      <4>2. CommandsOf(slots[k].cfg) \subseteq Reached(wire)
        BY <2>3, <3>2, <4>1
      <4>3. slots[k].cfg.addr # dev.cfg.addr \/ slots[k].cfg.type # dev.cfg.type
        BY <2>5, <3>2, <3>4, <4>1 DEF Announced, StoreInv, NoDoubles, Placed, Twins, Matches, At
      <4>4. CommandsOf(slots[k].cfg) \cap C = {}
        <5>1. slots[k].cfg \in Config /\ dev.cfg \in Config
          BY <2>4, <2>5, <4>1 DEF Announced, Placed, Device
        <5>2. QED BY <4>3, <5>1, CommandsApart
      <4>5. QED BY <3>1, <4>1, <4>2, <4>4
    <3>5. QED BY <3>3, <3>4
  <2>6. ASSUME NEW i, NEW a, NEW t, Emptied(i, a, t), e.kind = "removed", e.dev = slots[i]
        PROVE  WireOK(wire') /\ (cleanup = "DONE" /\ ~doubled' =>
          \A k \in Announced' : slots'[k].saved => CommandsOf(slots'[k].cfg) \subseteq Reached(wire'))
    <3> DEFINE C == CommandsOf(slots[i].cfg)
               G == GroupCommands(DOMAIN e.changes)
    <3>1. WireOK(wire') /\ Reached(wire) \subseteq Reached(wire') \cup C \cup G
      BY <2>1, <2>6, HandleEmptied
    <3>2. SUFFICES ASSUME cleanup = "DONE", ~doubled, NEW k \in Announced', slots'[k].saved
                   PROVE  CommandsOf(slots'[k].cfg) \subseteq Reached(wire')
      BY <2>6, <3>1 DEF Emptied
    <3>3. k # i /\ k \in Slots /\ slots'[k] = slots[k] /\ k \in Announced /\ slots[k].saved
      BY <2>6, <3>2 DEF Emptied, Announced
    <3>4. CommandsOf(slots[k].cfg) \subseteq Reached(wire)
      BY <2>3, <3>2, <3>3
    <3>5. slots[i] # NoDevice /\ slots[k] # NoDevice
      BY <2>6, <3>3, RegistryAssumption DEF Emptied, Announced
    <3>6. slots[k].cfg.addr # slots[i].cfg.addr \/ slots[k].cfg.type # slots[i].cfg.type
      BY <2>6, <3>2, <3>3, <3>5 DEF StoreInv, NoDoubles, Emptied, Twins
    <3>7. slots[k].cfg \in Config /\ slots[i].cfg \in Config
      BY <2>4, <2>6, <3>3, <3>5 DEF Emptied
    <3>8. CommandsOf(slots[k].cfg) \cap C = {} /\ CommandsOf(slots[k].cfg) \cap G = {}
      BY <3>6, <3>7, CommandsApart, CommandsNotGroups
    <3>9. QED BY <3>1, <3>3, <3>4, <3>8
  <2>7. ASSUME NEW k, NEW id, NEW grp, Grouped(k, id, grp), e.kind = "groups"
        PROVE  WireOK(wire') /\ (cleanup = "DONE" /\ ~doubled' =>
          \A i \in Announced' : slots'[i].saved => CommandsOf(slots'[i].cfg) \subseteq Reached(wire'))
    <3> DEFINE G == GroupCommands(DOMAIN e.changes)
    <3>1. WireOK(wire') /\ Reached(wire) \subseteq Reached(wire') \cup G
      BY <2>1, <2>7, HandleGrouped
    <3>2. SUFFICES ASSUME cleanup = "DONE", ~doubled, NEW i \in Announced, slots[i].saved
                   PROVE  CommandsOf(slots[i].cfg) \subseteq Reached(wire')
      BY <2>7, <3>1 DEF Grouped, Announced
    <3>3. CommandsOf(slots[i].cfg) \subseteq Reached(wire)
      BY <2>3, <3>2
    <3>4. CommandsOf(slots[i].cfg) \cap G = {}
      BY <2>4, <3>2, CommandsNotGroups DEF Announced
    <3>5. QED BY <3>1, <3>3, <3>4
  <2>8. CASE slots' = slots /\ doubled' = doubled /\ e.kind = "hub"
    <3>1. WireOK(wire') /\ Reached(wire') = Reached(wire)
      BY <2>1, <2>8, HandleHub
    <3>2. Announced' = Announced
      BY <2>8 DEF Announced
    <3>3. QED BY <2>3, <2>8, <3>1, <3>2
  <2>9. QED BY <2>5, <2>6, <2>7, <2>8 DEF Notified
<1>4. QED BY <1>2, <1>3

----------------------------------------------------------------------------
(* While the collection runs, the broker has offered every discovery that  *)
(* it retains: what it held at the subscription, and the echo of the rest. *)
Collecting ==
  link = "up" /\ cleanup = "COLLECTING" =>
    \A t \in DiscoveryTopics : wire.retained[t] # NoMessage => t \in offered

WireInv == WireOK(wire) /\ Outage /\ Heard /\ Collecting

LEMMA OperatesWire ==
  ASSUME StoreInv, WireInv, NEW e, Notified(e), MqttHears(e)
  PROVE  WireInv'
<1>1. WireOK(wire') /\ Heard'
  BY NotifiedHeard DEF WireInv
<1>2. Outage'
  BY DEF MqttHears, WireInv, Outage
<1>3. Collecting'
  BY DEF MqttHears, WireInv, Collecting
<1>4. QED BY <1>1, <1>2, <1>3 DEF WireInv

LEMMA BootsWire ==
  ASSUME WireInv, MqttRestarts
  PROVE  WireInv'
<1>1. link' = "down" /\ connected' = FALSE /\ cleanup' = "IDLE"
  BY DEF MqttRestarts
<1>2. WireOK(wire')
  <2> DEFINE s == {}
             g == {}
  <2>1. wire' = [wire EXCEPT !.subs = s, !.gap = g]
    BY DEF MqttRestarts
  <2> HIDE DEF s, g
  <2>2. wire' = [retained |-> wire.retained, subs |-> s, gap |-> g]
    BY <2>1, WireFields DEF WireInv
  <2>3. QED BY <2>2, WireMap, WireIs DEF WireInv
<1>3. QED BY <1>1, <1>2 DEF WireInv, Outage, Heard, Collecting, is_connected

LEMMA HeardAfterCleanup ==
  ASSUME StoreInv, WireOK(wire), NEW collected, FinishCleanup(collected), StoreStays
  PROVE  Heard'
<1>1. CommandTopics \subseteq Reached(wire')
  BY FinishIs
<1>2. \A i \in Announced : CommandsOf(slots[i].cfg) \subseteq CommandTopics
  BY DEF CommandTopics
<1>3. Announced' = Announced /\ slots' = slots
  BY DEF StoreStays, Announced
<1> HIDE DEF CommandTopics
<1>4. QED BY <1>1, <1>2, <1>3 DEF Heard

LEMMA BrokerWire ==
  ASSUME StoreInv, WireInv, BrokerSteps
  PROVE  WireInv'
<1>1. Announced' = Announced /\ slots' = slots /\ doubled' = doubled
  BY DEF BrokerSteps, StoreStays, Announced
<1>2. CASE StartCollection
  BY <1>2 DEF StartCollection, WireInv, Outage, Heard, Collecting
<1>3. CASE SeesOutage
  BY <1>3 DEF SeesOutage, WireInv, Outage, Heard, Collecting
<1>4. CASE \E late \in SUBSET (offered \ Expected) : FinishCleanup(offered \ late)
  <2>1. PICK collected : FinishCleanup(collected)
    BY <1>4
  <2>2. Heard' /\ WireOK(wire')
    BY <2>1, HeardAfterCleanup, FinishIs DEF WireInv, BrokerSteps
  <2>3. Outage' /\ Collecting'
    BY <2>1 DEF FinishCleanup, WireInv, Outage, Collecting
  <2>4. QED BY <2>2, <2>3 DEF WireInv
<1>5. CASE Connect
  BY <1>5 DEF Connect, WireInv, Outage, Heard, Collecting
<1>6. CASE LinkDies
  BY <1>1, <1>6 DEF LinkDies, WireInv, Outage, Heard, Collecting, is_connected
<1>7. CASE Disconnect
  BY <1>1, <1>7 DEF Disconnect, WireInv, Outage, Heard, Collecting, is_connected
<1>8. QED BY <1>2, <1>3, <1>4, <1>5, <1>6, <1>7 DEF BrokerSteps, MqttStep

LEMMA BrowserWire ==
  ASSUME WireInv, StoreStays, UNCHANGED mqttVars
  PROVE  WireInv'
<1>1. Announced' = Announced /\ slots' = slots /\ doubled' = doubled
  BY DEF StoreStays, Announced
<1>2. QED BY <1>1 DEF mqttVars, WireInv, Outage, Heard, Collecting, is_connected

LEMMA WireStays ==
  ASSUME GatewayInv, WireInv, [Next]_vars
  PROVE  WireInv'
<1>1. CASE Operates
  BY <1>1, OperationNotifies, OperatesWire DEF Operates, GatewayInv
<1>2. CASE Boots
  BY <1>2, BootsWire DEF Boots
<1>3. CASE BrokerSteps
  BY <1>3, BrokerWire DEF GatewayInv
<1>4. CASE BrowserSteps
  BY <1>4, BrowserWire DEF BrowserSteps
<1>5. QED BY <1>1, <1>2, <1>3, <1>4, GatewayParts DEF GatewayInv, Parts

LEMMA WireInit == Init => WireInv
<1> SUFFICES ASSUME Init PROVE WireInv
  OBVIOUS
<1> DEFINE r == [t \in Topics |-> NoMessage]
           s == {}
<1>1. /\ link = "down" /\ connected = FALSE /\ cleanup = "IDLE"
      /\ wire = [retained |-> r, subs |-> s, gap |-> s]
  BY DEF Init, MqttInit
<1>2. IsMap(r)
  BY DEF IsMap
<1> HIDE DEF r, s
<1>3. WireOK(wire)
  BY <1>1, <1>2, WireIs
<1>4. QED BY <1>1, <1>3 DEF WireInv, Outage, Heard, Collecting, is_connected

(* Once a connection's cleanup is over, every cover and light that is      *)
(* shown can be commanded, but for those enabled again since               *)
(* (subscribe_cover_commands_, subscribe_light_commands_, republish_all_,  *)
(* on_config_changed).                                                     *)
THEOREM GatewayHeard == Spec => []ShownIsHeard
<1>1. GatewayInv /\ WireInv /\ [Next]_vars => WireInv'
  BY WireStays
<1>2. WireInv => ShownIsHeard
  BY DEF WireInv, Heard, ShownIsHeard, Settled, is_connected, Reached
<1>3. QED BY <1>1, <1>2, WireInit, GatewayInvariant, PTL DEF Spec

----------------------------------------------------------------------------
(* Groups whose members are the only devices at their addresses.           *)
GroupOK(grp, ss) ==
  /\ grp \in Group /\ grp.members # {}
  /\ \A a \in grp.members : \E i \in At(ss, a) : ss[i].cfg.type # "remote"
  /\ \A i, j \in Slots :
       /\ Sole(ss, i) /\ ss[i].cfg.addr \in grp.members
       /\ Sole(ss, j) /\ ss[j].cfg.addr \in grp.members
       => ss[i].cfg.type = ss[j].cfg.type

LEMMA HasMembers ==
  ASSUME NEW M, Cardinality(M) >= 2
  PROVE  M # {}
<1>1. Cardinality({}) = 0
  BY FS_EmptySet
<1>2. QED BY <1>1

LEMMA GroupsOK ==
  /\ StoreInv => \A g \in GroupSlots : groups[g] # NoGroup => GroupOK(groups[g], slots)
  /\ StoreInv' => \A g \in GroupSlots : groups'[g] # NoGroup => GroupOK(groups'[g], slots')
<1>1. ASSUME StoreInv, NEW g \in GroupSlots, groups[g] # NoGroup
      PROVE  GroupOK(groups[g], slots)
  <2>1. groups[g] \in Group
    BY <1>1 DEF StoreInv, RegInv, RegTypeOK
  <2>2. groups[g].members # {}
    BY <1>1, HasMembers DEF StoreInv, RegInv, MembersKnown
  <2>3. QED BY <1>1, <2>1, <2>2 DEF StoreInv, RegInv, MembersKnown, OneType, GroupOK
<1>2. ASSUME StoreInv', NEW g \in GroupSlots, groups'[g] # NoGroup
      PROVE  GroupOK(groups'[g], slots')
  <2>1. groups'[g] \in Group
    BY <1>2 DEF StoreInv, RegInv, RegTypeOK
  <2>2. groups'[g].members # {}
    BY <1>2, HasMembers DEF StoreInv, RegInv, MembersKnown
  <2>3. QED BY <1>2, <2>1, <2>2 DEF StoreInv, RegInv, MembersKnown, OneType, GroupOK
<1>3. QED BY <1>1, <1>2

LEMMA AloneAt ==
  ASSUME NEW ss, NEW grp, GroupOK(grp, ss), ~Ambiguous(grp, ss), NEW a \in grp.members
  PROVE  \E i \in Slots : At(ss, a) = {i} /\ Sole(ss, i) /\ ss[i].cfg.addr = a
           /\ DeviceAt(ss, a) = ss[i].cfg /\ ss[i].cfg.type # "remote"
<1>1. PICK i \in At(ss, a) : ss[i].cfg.type # "remote"
  BY DEF GroupOK
<1>2. At(ss, a) = {i}
  BY <1>1 DEF Ambiguous
<1>3. i \in Slots /\ Sole(ss, i) /\ ss[i].cfg.addr = a
  BY <1>1, <1>2 DEF At, Sole
<1>4. DeviceAt(ss, a) = ss[i].cfg
  BY <1>3, SoleIsFound
<1>5. QED BY <1>1, <1>2, <1>3, <1>4

LEMMA AloneTyped ==
  ASSUME NEW ss, NEW grp, GroupOK(grp, ss), ~Ambiguous(grp, ss)
  PROVE  Typed(grp, ss)
<1>1. ASSUME NEW a \in grp.members
      PROVE  At(ss, a) # {} /\ DeviceAt(ss, a).type # "remote"
  BY <1>1, AloneAt
<1>2. ASSUME NEW a \in grp.members, NEW b \in grp.members
      PROVE  DeviceAt(ss, a).type = DeviceAt(ss, b).type
  <2>1. PICK i \in Slots : Sole(ss, i) /\ ss[i].cfg.addr = a /\ DeviceAt(ss, a) = ss[i].cfg
    BY AloneAt
  <2>2. PICK j \in Slots : Sole(ss, j) /\ ss[j].cfg.addr = b /\ DeviceAt(ss, b) = ss[j].cfg
    BY AloneAt
  <2>3. ss[i].cfg.type = ss[j].cfg.type
    BY <2>1, <2>2 DEF GroupOK
  <2>4. QED BY <2>1, <2>2, <2>3
<1>3. QED BY <1>1, <1>2 DEF Typed

(* A group of one type is published as a cover or as a light.              *)
LEMMA TypedType ==
  ASSUME NEW ss \in [Slots -> Device \cup {NoDevice}], NEW grp, grp.members # {}, Typed(grp, ss)
  PROVE  GroupType(grp, ss) \in {"cover", "light"}
<1> DEFINE a == CHOOSE x \in grp.members : TRUE
<1>1. a \in grp.members
  OBVIOUS
<1> HIDE DEF a
<1>2. At(ss, a) # {} /\ DeviceAt(ss, a).type # "remote"
  BY <1>1 DEF Typed
<1>3. First(At(ss, a)) \in At(ss, a)
  BY <1>2, FirstAt
<1>4. DeviceAt(ss, a).type \in Types
  BY <1>3 DEF At, DeviceAt, Device, Config
<1>5. QED BY <1>2, <1>4 DEF GroupType, Types, a

(* While its members stay alone at their addresses and keep their types,   *)
(* so does the group.                                                      *)
LEMMA SameType ==
  ASSUME NEW ss, NEW tt, NEW grp, GroupOK(grp, ss), GroupOK(grp, tt),
         ~Ambiguous(grp, ss), ~Ambiguous(grp, tt),
         \A a \in grp.members : \A i \in At(ss, a) : i \in At(tt, a) /\ tt[i].cfg.type = ss[i].cfg.type
  PROVE  GroupType(grp, tt) = GroupType(grp, ss)
<1> DEFINE a == CHOOSE x \in grp.members : TRUE
<1>1. a \in grp.members
  BY DEF GroupOK
<1> HIDE DEF a
<1>2. PICK i \in Slots : At(ss, a) = {i} /\ DeviceAt(ss, a) = ss[i].cfg
  BY <1>1, AloneAt
<1>3. PICK j \in Slots : At(tt, a) = {j} /\ DeviceAt(tt, a) = tt[j].cfg
  BY <1>1, AloneAt
<1>4. i = j /\ tt[i].cfg.type = ss[i].cfg.type
  BY <1>1, <1>2, <1>3
<1>5. QED BY <1>2, <1>3, <1>4 DEF GroupType, a

(* The topics of the gateway, of devices and of groups.                    *)
LEMMA DeviceTopic ==
  ASSUME NEW c \in Config
  PROVE  TopicOf(c) \in Topics /\ TopicOf(c) # Gateway /\ TopicOf(c)[2] \in Addrs
<1>1. c.type \in Types /\ c.addr \in Addrs
  BY DEF Config
<1>2. QED BY <1>1 DEF TopicOf, Topics, Gateway, Types

LEMMA DeviceTopicsApart ==
  ASSUME NEW c \in Config, NEW d \in Config, c.addr # d.addr \/ c.type # d.type
  PROVE  TopicOf(c) # TopicOf(d)
BY DEF TopicOf

LEMMA GroupTopicIs ==
  ASSUME NEW ids \in SUBSET GroupIds, NEW t \in GroupTopics(ids)
  PROVE  t \in Topics /\ t # Gateway /\ t[2] \in ids /\ t[1] \in {"cover", "light", "attributes"}
           /\ t = <<t[1], t[2]>> /\ \A c \in Config : t # TopicOf(c)
<1>1. t \in {"cover", "light", "attributes"} \X ids
  BY DEF GroupTopics
<1>2. t[2] \in ids /\ t[1] \in {"cover", "light", "attributes"} /\ t = <<t[1], t[2]>>
  BY <1>1
<1>3. t \in Topics /\ t # Gateway
  BY <1>1, <1>2 DEF Topics, Gateway, GroupTopics
<1>4. ASSUME NEW c \in Config, t = TopicOf(c) PROVE FALSE
  <2>1. t[2] \in Addrs
    BY <1>4, DeviceTopic
  <2>2. QED BY <1>2, <2>1, TopicsAssumption
<1>5. QED BY <1>2, <1>3, <1>4

LEMMA GroupTopicFacts ==
  ASSUME NEW ss \in [Slots -> Device \cup {NoDevice}], NEW grp, GroupOK(grp, ss), Typed(grp, ss),
         NEW kind \in Kinds
  PROVE  LET t == GroupTopicOf(kind, grp, ss)
         IN /\ t \in GroupTopics({grp.id}) /\ t \in Topics /\ t # Gateway /\ t[2] = grp.id
            /\ t[1] = (IF kind = "attributes" THEN kind ELSE GroupType(grp, ss))
            /\ t[1] = "attributes" <=> kind = "attributes"
            /\ grp.id \in GroupIds
            /\ \A c \in Config : t # TopicOf(c)
<1> DEFINE t == GroupTopicOf(kind, grp, ss)
<1>1. GroupType(grp, ss) \in {"cover", "light"}
  BY TypedType DEF GroupOK
<1>2. grp.id \in GroupIds
  BY DEF GroupOK, Group
<1>3. /\ t \in GroupTopics({grp.id}) /\ t[2] = grp.id
      /\ t[1] = (IF kind = "attributes" THEN kind ELSE GroupType(grp, ss))
  BY <1>1 DEF GroupTopics, GroupTopicOf
<1> HIDE DEF t
<1>4. t[1] = "attributes" <=> kind = "attributes"
  BY <1>1, <1>3
<1>5. t \in Topics /\ t # Gateway /\ \A c \in Config : t # TopicOf(c)
  BY <1>2, <1>3, GroupTopicIs
<1>6. QED BY <1>2, <1>3, <1>4, <1>5 DEF t

(* What is published at a topic of a group depends on the kind of topic.   *)
LEMMA PayloadAt ==
  ASSUME NEW t, NEW kind \in Kinds, t[1] = "attributes" <=> kind = "attributes",
         NEW grp, NEW ss, NEW name
  PROVE  GroupPayload(t[1], grp, ss, name) = GroupPayload(kind, grp, ss, name)
BY DEF GroupPayload

----------------------------------------------------------------------------
(* The parts of BrokerMirrors.                                             *)
GatewayShown == wire.retained[Gateway] = [hub |-> hub]
DevicesShown ==
  \A i \in Announced : slots[i].saved => wire.retained[TopicOf(slots[i].cfg)] = slots[i].cfg
TopicOfGroup(kind, g) == GroupTopicOf(kind, groups[g], slots)
PayloadOfGroup(kind, g) == GroupPayload(kind, groups[g], slots, hub)
Alone(g) == g \in GroupSlots /\ groups[g] # NoGroup /\ ~Ambiguous(groups[g], slots)
GroupsShown ==
  \A g \in GroupSlots : Alone(g) =>
    /\ g \in TypedGroups
    /\ \A kind \in Kinds : wire.retained[TopicOfGroup(kind, g)] = PayloadOfGroup(kind, g)
Unclear(t) ==
  \E g \in GroupSlots : groups[g] # NoGroup /\ groups[g].id = t[2] /\ Ambiguous(groups[g], slots)
NothingElse ==
  \A t \in Topics : wire.retained[t] # NoMessage => t \in Current \cup missed \/ Unclear(t)
Mirrors == GatewayShown /\ DevicesShown /\ GroupsShown /\ NothingElse

LEMMA MirrorsIs == BrokerMirrors <=> (Settled => Mirrors)
BY DEF BrokerMirrors, Mirrors, GatewayShown, DevicesShown, GroupsShown, NothingElse, Alone,
       TopicOfGroup, PayloadOfGroup, Kinds, Unclear

LEMMA CurrentIs ==
  \A t : t \in Current <=>
    \/ t = Gateway
    \/ \E i \in Announced : t = TopicOf(slots[i].cfg)
    \/ \E kind \in Kinds, g \in TypedGroups : t = TopicOfGroup(kind, g)
BY DEF Current, TopicOfGroup, Kinds

LEMMA CurrentNext ==
  \A t : t \in Current' <=>
    \/ t = Gateway
    \/ \E i \in Announced' : t = TopicOf(slots'[i].cfg)
    \/ \E kind \in Kinds, g \in TypedGroups' : t = GroupTopicOf(kind, groups'[g], slots')
BY DEF Current, Kinds

(* What the collection expects is current.                                 *)
LEMMA ExpectedIs ==
  \A t : t \in Expected => t \in Current
BY DEF Expected, Current

LEMMA AnnouncedIs ==
  ASSUME StoreInv, NEW i \in Announced
  PROVE  i \in Slots /\ slots[i] # NoDevice /\ slots[i].cfg.enabled /\ slots[i] \in Device
           /\ slots[i].cfg \in Config
BY DEF Announced, StoreInv, RegInv, RegTypeOK, Device

LEMMA TypedIs ==
  ASSUME StoreInv, NEW g \in TypedGroups, NEW kind \in Kinds
  PROVE  /\ g \in GroupSlots /\ groups[g] # NoGroup /\ Typed(groups[g], slots)
         /\ GroupOK(groups[g], slots)
         /\ TopicOfGroup(kind, g) \in Topics /\ TopicOfGroup(kind, g) # Gateway
         /\ TopicOfGroup(kind, g)[2] = groups[g].id /\ groups[g].id \in GroupIds
         /\ TopicOfGroup(kind, g)[1] = "attributes" <=> kind = "attributes"
         /\ TopicOfGroup(kind, g) \in GroupTopics({groups[g].id})
         /\ \A c \in Config : TopicOfGroup(kind, g) # TopicOf(c)
<1>1. g \in GroupSlots /\ groups[g] # NoGroup /\ Typed(groups[g], slots)
  BY DEF TypedGroups, TypedIn
<1>2. GroupOK(groups[g], slots)
  BY <1>1, GroupsOK
<1>3. slots \in [Slots -> Device \cup {NoDevice}]
  BY DEF StoreInv, RegInv, RegTypeOK
<1> DEFINE grp == groups[g]
           t == GroupTopicOf(kind, grp, slots)
<1>4. TopicOfGroup(kind, g) = t
  BY DEF TopicOfGroup
<1>5. GroupOK(grp, slots) /\ Typed(grp, slots)
  BY <1>1, <1>2
<1> HIDE DEF grp
<1>6. /\ t \in Topics /\ t # Gateway
      /\ t[1] = "attributes" <=> kind = "attributes"
      /\ t[2] = grp.id /\ t \in GroupTopics({grp.id}) /\ grp.id \in GroupIds
      /\ \A c \in Config : t # TopicOf(c)
  BY <1>3, <1>5, GroupTopicFacts
<1> HIDE DEF t
<1>7. QED BY <1>1, <1>2, <1>4, <1>6 DEF grp

LEMMA AloneIs ==
  ASSUME StoreInv, NEW g, Alone(g)
  PROVE  g \in TypedGroups
<1>1. g \in GroupSlots /\ groups[g] # NoGroup /\ GroupOK(groups[g], slots)
  BY GroupsOK DEF Alone
<1>2. Typed(groups[g], slots)
  BY <1>1, AloneTyped DEF Alone
<1>3. QED BY <1>1, <1>2 DEF TypedGroups, TypedIn

(* A group that is published as it was.                                    *)
SameGroup(g) ==
  \A kind \in Kinds : /\ TopicOfGroup(kind, g)' = TopicOfGroup(kind, g)
                      /\ PayloadOfGroup(kind, g)' = PayloadOfGroup(kind, g)

(* A device that is added or configured anew.  Whatever shares an address  *)
(* with it was alone there before, or still is.                            *)
LEMMA PlacedKeepsType ==
  ASSUME StoreInv, StoreInv', NEW i, NEW dev, Placed(i, dev),
         NEW g \in GroupSlots, groups[g] # NoGroup
  PROVE  /\ Ambiguous(groups[g], slots) => Ambiguous(groups'[g], slots')
         /\ Alone(g)' => Alone(g) /\ g \in TypedGroups' /\ SameGroup(g)
<1>1. groups' = groups
  BY DEF Placed
<1>2. dev # NoDevice
  BY RegistryAssumption DEF Placed
<1>3. \A a : \A j \in At(slots, a) :
        j \in At(slots', a) /\ slots'[j].cfg.type = slots[j].cfg.type
  BY <1>2 DEF Placed, Matches, At
<1>4. Ambiguous(groups[g], slots) => Ambiguous(groups'[g], slots')
  BY <1>1, <1>3 DEF Ambiguous
<1>5. ASSUME Alone(g)' PROVE Alone(g) /\ g \in TypedGroups' /\ SameGroup(g)
  <2>1. Alone(g) /\ ~Ambiguous(groups[g], slots) /\ ~Ambiguous(groups[g], slots')
    BY <1>1, <1>4, <1>5 DEF Alone
  <2>2. GroupOK(groups[g], slots) /\ GroupOK(groups[g], slots')
    BY <1>1, GroupsOK
  <2>3. GroupType(groups[g], slots') = GroupType(groups[g], slots)
    BY <1>3, <2>1, <2>2, SameType
  <2>4. Typed(groups'[g], slots')
    BY <1>1, <2>1, <2>2, AloneTyped
  <2>5. hub' = hub
    BY DEF Placed
  <2>6. SameGroup(g)
    BY <1>1, <2>3, <2>5 DEF SameGroup, TopicOfGroup, PayloadOfGroup, GroupTopicOf, GroupPayload
  <2>7. QED BY <1>1, <2>1, <2>4, <2>6 DEF TypedGroups, TypedIn
<1>6. QED BY <1>4, <1>5

LEMMA PlacedOthers ==
  ASSUME StoreInv, ~doubled, NEW i, NEW dev, Placed(i, dev), NEW j \in Slots, j # i,
         slots[j] # NoDevice
  PROVE  slots'[j] = slots[j] /\ slots[j].cfg \in Config /\ dev.cfg \in Config
           /\ TopicOf(slots[j].cfg) # TopicOf(dev.cfg)
<1>1. slots[j].cfg.addr # dev.cfg.addr \/ slots[j].cfg.type # dev.cfg.type
  BY DEF StoreInv, NoDoubles, Placed, Twins, Matches, At
<1>2. slots[j].cfg \in Config /\ dev.cfg \in Config
  BY DEF StoreInv, RegInv, RegTypeOK, Placed, Device
<1>3. QED BY <1>1, <1>2, DeviceTopicsApart DEF Placed

LEMMA MirrorsPlaced ==
  ASSUME StoreInv, StoreInv', ~doubled, link = "up", WireOK(wire), Mirrors,
         NEW e, NEW i, NEW dev, Placed(i, dev), e.dev = dev,
         e.kind = IF slots[i] = NoDevice THEN "added" ELSE "config",
         wire' = Handle(wire, e), missed' = missed
  PROVE  Mirrors'
<1> DEFINE T == TopicOf(dev.cfg)
<1>1. /\ dev \in Device /\ dev.cfg \in Config /\ dev # NoDevice
      /\ i \in Slots /\ slots'[i] = dev /\ groups' = groups /\ hub' = hub
  BY RegistryAssumption DEF Placed, Device
<1>2. T \in Topics /\ T # Gateway
  BY <1>1, DeviceTopic
<1>3. /\ \A t \in Topics : t # T => wire'.retained[t] = wire.retained[t]
      /\ dev.cfg.enabled /\ dev.saved => wire'.retained[T] = dev.cfg
      /\ ~dev.cfg.enabled => \/ wire'.retained[T] = NoMessage
                             \/ slots[i] = NoDevice /\ wire'.retained[T] = wire.retained[T]
  BY <1>2, HandlePlaced
<1>4. \A j \in Slots : j # i /\ slots[j] # NoDevice =>
        slots'[j] = slots[j] /\ slots[j].cfg \in Config /\ TopicOf(slots[j].cfg) # T
  BY PlacedOthers
<1>5. \A j \in Announced' : j # i => j \in Announced
  BY DEF Placed, Announced
<1>6. \A j \in Announced : j # i => j \in Announced'
  BY DEF Placed, Announced
<1>7. GatewayShown'
  <2>1. Gateway \in Topics
    BY DEF Topics
  <2>2. QED BY <1>1, <1>2, <1>3, <2>1 DEF Mirrors, GatewayShown
<1>8. DevicesShown'
  <2> SUFFICES ASSUME NEW j \in Announced', slots'[j].saved
               PROVE  wire'.retained[TopicOf(slots'[j].cfg)] = slots'[j].cfg
    BY DEF DevicesShown
  <2>1. CASE j = i
    BY <1>1, <1>3, <2>1 DEF Announced
  <2>2. CASE j # i
    <3>1. j \in Announced /\ slots'[j] = slots[j] /\ slots[j].cfg \in Config
            /\ TopicOf(slots[j].cfg) # T
      BY <1>4, <1>5, <2>2 DEF Announced
    <3>2. wire.retained[TopicOf(slots[j].cfg)] = slots[j].cfg
      BY <3>1 DEF Mirrors, DevicesShown
    <3>3. TopicOf(slots[j].cfg) \in Topics
      BY <3>1, DeviceTopic
    <3>4. QED BY <1>3, <3>1, <3>2, <3>3
  <2>3. QED BY <2>1, <2>2
<1>9. GroupsShown'
  <2> SUFFICES ASSUME NEW g \in GroupSlots, Alone(g)'
               PROVE  g \in TypedGroups' /\ \A kind \in Kinds :
                        wire'.retained[TopicOfGroup(kind, g)'] = PayloadOfGroup(kind, g)'
    BY DEF GroupsShown
  <2>1. groups[g] # NoGroup
    BY <1>1 DEF Alone
  <2>2. Alone(g) /\ g \in TypedGroups' /\ SameGroup(g)
    BY <2>1, PlacedKeepsType
  <2>3. g \in TypedGroups
          /\ \A kind \in Kinds : wire.retained[TopicOfGroup(kind, g)] = PayloadOfGroup(kind, g)
    BY <2>2 DEF Mirrors, GroupsShown
  <2>4. \A kind \in Kinds : TopicOfGroup(kind, g) \in Topics /\ TopicOfGroup(kind, g) # T
    BY <1>1, <2>3, TypedIs
  <2>5. QED BY <1>3, <2>2, <2>3, <2>4 DEF SameGroup
<1>10. NothingElse'
  <2> SUFFICES ASSUME NEW t \in Topics, wire'.retained[t] # NoMessage
               PROVE  t \in Current' \cup missed' \/ Unclear(t)'
    BY DEF NothingElse
  <2>1. ASSUME NEW g \in GroupSlots, groups[g] # NoGroup, groups[g].id = t[2],
               Ambiguous(groups[g], slots)
        PROVE  Unclear(t)'
    <3>1. Ambiguous(groups'[g], slots')
      BY <2>1, PlacedKeepsType
    <3>2. QED BY <1>1, <2>1, <3>1 DEF Unclear
  <2>2. ASSUME NEW kind \in Kinds, NEW g \in TypedGroups, t = TopicOfGroup(kind, g)
        PROVE  t \in Current' \/ Unclear(t)'
    <3>1. g \in GroupSlots /\ groups[g] # NoGroup /\ t[2] = groups[g].id
      BY <2>2, TypedIs
    <3>2. CASE Ambiguous(groups'[g], slots')
      BY <1>1, <3>1, <3>2 DEF Unclear
    <3>3. CASE ~Ambiguous(groups'[g], slots')
      <4>1. Alone(g)'
        BY <1>1, <3>1, <3>3 DEF Alone
      <4>2. g \in TypedGroups' /\ TopicOfGroup(kind, g)' = t
        BY <2>2, <3>1, <4>1, PlacedKeepsType DEF SameGroup
      <4>3. QED BY <4>2, CurrentNext DEF TopicOfGroup
    <3>4. QED BY <3>2, <3>3
  <2>3. ASSUME NEW j \in Announced, j # i, t = TopicOf(slots[j].cfg)
        PROVE  t \in Current'
    <3>1. j \in Announced' /\ slots'[j] = slots[j]
      BY <1>4, <1>6, <2>3 DEF Announced
    <3>2. QED BY <2>3, <3>1, CurrentNext
  <2>4. ASSUME t # T \/ ~dev.cfg.enabled
        PROVE  t \in Current' \cup missed' \/ Unclear(t)'
    <3>1. wire.retained[t] # NoMessage /\ (t = T => slots[i] = NoDevice)
      BY <1>3, <2>4
    <3>2. t \in Current \cup missed \/ Unclear(t)
      BY <3>1 DEF Mirrors, NothingElse
    <3>3. CASE Unclear(t)
      BY <2>1, <3>3 DEF Unclear
    <3>4. CASE t \in missed
      BY <3>4
    <3>5. CASE t = Gateway
      BY <3>5, CurrentNext
    <3>6. CASE \E kind \in Kinds, g \in TypedGroups : t = TopicOfGroup(kind, g)
      BY <2>2, <3>6
    <3>7. CASE \E j \in Announced : t = TopicOf(slots[j].cfg)
      <4>1. PICK j \in Announced : t = TopicOf(slots[j].cfg)
        BY <3>7
      <4>2. j # i
        <5>1. SUFFICES ASSUME j = i PROVE FALSE
          OBVIOUS
        <5>2. slots[i] # NoDevice
          BY <4>1, <5>1 DEF Announced
        <5>3. i \in Matches(slots, dev.cfg.addr, dev.cfg.type)
          BY <5>2 DEF Placed
        <5>4. t = T
          BY <4>1, <5>1, <5>3 DEF Matches, At, TopicOf
        <5>5. QED BY <3>1, <5>2, <5>4
      <4>3. QED BY <2>3, <4>1, <4>2
    <3>8. QED BY <3>2, <3>3, <3>4, <3>5, <3>6, <3>7, CurrentIs
  <2>5. CASE t = T /\ dev.cfg.enabled
    <3>1. i \in Announced'
      BY <1>1, <2>5 DEF Announced
    <3>2. QED BY <1>1, <2>5, <3>1, CurrentNext
  <2>6. QED BY <2>4, <2>5
<1>11. QED BY <1>7, <1>8, <1>9, <1>10 DEF Mirrors

----------------------------------------------------------------------------
(* A change of the groups of ch, and of the devices whose topics are gone: *)
(* every other group and device is left as it was, and ch has what is left *)
(* of the groups.                                                          *)
Changed(ch, gone) ==
  /\ DOMAIN ch \in SUBSET GroupIds
  /\ \A g \in GroupSlots : groups'[g] # NoGroup /\ groups'[g].id \in DOMAIN ch =>
       ch[groups'[g].id] = groups'[g]
  /\ \A id \in DOMAIN ch : ch[id] # NoGroup =>
       \E g \in GroupSlots : groups'[g] = ch[id] /\ ch[id].id = id
  /\ \A g \in GroupSlots :
       \/ groups[g] # NoGroup /\ groups[g].id \notin DOMAIN ch
       \/ groups'[g] # NoGroup /\ groups'[g].id \notin DOMAIN ch
       => /\ groups'[g] = groups[g]
          /\ \A a \in groups[g].members : \A i \in Slots :
               /\ i \in At(slots, a) <=> i \in At(slots', a)
               /\ i \in At(slots, a) => slots'[i] = slots[i]
  /\ gone \subseteq {TopicOf(c) : c \in Config}
  /\ \A i \in Announced' : i \in Announced /\ slots'[i] = slots[i] /\ TopicOf(slots[i].cfg) \notin gone
  /\ \A i \in Announced : TopicOf(slots[i].cfg) \notin gone => i \in Announced' /\ slots'[i] = slots[i]
  /\ hub' = hub

(* A group that did not change is as unambiguous as it was, and published  *)
(* as the same type.                                                       *)
LEMMA UnchangedGroup ==
  ASSUME StoreInv, StoreInv', NEW ch, NEW gone, Changed(ch, gone), NEW g \in GroupSlots,
         \/ groups[g] # NoGroup /\ groups[g].id \notin DOMAIN ch
         \/ groups'[g] # NoGroup /\ groups'[g].id \notin DOMAIN ch
  PROVE  /\ groups'[g] = groups[g]
         /\ Ambiguous(groups[g], slots) <=> Ambiguous(groups'[g], slots')
         /\ Alone(g)' => Alone(g) /\ SameGroup(g)
<1>1. /\ groups'[g] = groups[g]
      /\ \A a \in groups[g].members : \A i \in Slots :
           /\ i \in At(slots, a) <=> i \in At(slots', a)
           /\ i \in At(slots, a) => slots'[i] = slots[i]
  BY DEF Changed
<1>2. \A a : At(slots, a) \subseteq Slots /\ At(slots', a) \subseteq Slots
  BY DEF At
<1>3. \A a \in groups[g].members : At(slots', a) = At(slots, a)
  BY <1>1, <1>2
<1>4. Ambiguous(groups[g], slots) <=> Ambiguous(groups'[g], slots')
  BY <1>1, <1>3 DEF Ambiguous
<1>5. ASSUME Alone(g)' PROVE Alone(g) /\ SameGroup(g)
  <2>1. /\ groups[g] # NoGroup /\ ~Ambiguous(groups[g], slots) /\ ~Ambiguous(groups[g], slots')
        /\ Alone(g)
    BY <1>1, <1>4, <1>5 DEF Alone
  <2>2. GroupOK(groups[g], slots) /\ GroupOK(groups[g], slots')
    BY <1>1, <2>1, GroupsOK
  <2>3. \A a \in groups[g].members : \A i \in At(slots, a) :
          i \in At(slots', a) /\ slots'[i].cfg.type = slots[i].cfg.type
    BY <1>1, <1>2, <1>3
  <2>4. GroupType(groups[g], slots') = GroupType(groups[g], slots)
    BY <2>1, <2>2, <2>3, SameType
  <2>5. hub' = hub
    BY DEF Changed
  <2>6. SameGroup(g)
    BY <1>1, <2>4, <2>5 DEF SameGroup, TopicOfGroup, PayloadOfGroup, GroupTopicOf, GroupPayload
  <2>7. QED BY <2>1, <2>6
<1>6. QED BY <1>1, <1>4, <1>5

LEMMA AloneNext ==
  ASSUME StoreInv', NEW g \in GroupSlots, Alone(g)', NEW kind \in Kinds
  PROVE  /\ g \in TypedGroups' /\ groups'[g] # NoGroup /\ Typed(groups'[g], slots')
         /\ TopicOfGroup(kind, g)' = GroupTopicOf(kind, groups'[g], slots')
         /\ TopicOfGroup(kind, g)' \in Topics /\ TopicOfGroup(kind, g)' # Gateway
         /\ TopicOfGroup(kind, g)'[1] \in {"attributes", GroupType(groups'[g], slots')}
         /\ TopicOfGroup(kind, g)'[1] = "attributes" <=> kind = "attributes"
         /\ TopicOfGroup(kind, g)'[2] = groups'[g].id
         /\ TopicOfGroup(kind, g)' \in GroupTopics({groups'[g].id})
         /\ \A c \in Config : TopicOfGroup(kind, g)' # TopicOf(c)
<1>1. groups'[g] # NoGroup /\ ~Ambiguous(groups'[g], slots')
  BY DEF Alone
<1>2. GroupOK(groups'[g], slots')
  BY <1>1, GroupsOK
<1>3. Typed(groups'[g], slots')
  BY <1>1, <1>2, AloneTyped
<1>4. slots' \in [Slots -> Device \cup {NoDevice}]
  BY DEF StoreInv, RegInv, RegTypeOK
<1>5. TopicOfGroup(kind, g)' = GroupTopicOf(kind, groups'[g], slots')
  BY DEF TopicOfGroup
<1> DEFINE t == GroupTopicOf(kind, groups'[g], slots')
<1>6. /\ t \in Topics /\ t # Gateway
      /\ t[1] = (IF kind = "attributes" THEN kind ELSE GroupType(groups'[g], slots'))
      /\ t[1] = "attributes" <=> kind = "attributes"
      /\ t[2] = groups'[g].id /\ t \in GroupTopics({groups'[g].id})
      /\ \A c \in Config : t # TopicOf(c)
  BY <1>2, <1>3, <1>4, GroupTopicFacts
<1>7. g \in TypedGroups'
  BY <1>1, <1>3 DEF TypedGroups, TypedIn
<1> HIDE DEF t
<1>8. QED BY <1>1, <1>3, <1>5, <1>6, <1>7 DEF t

LEMMA MirrorsChanged ==
  ASSUME StoreInv, StoreInv', Mirrors, NEW ch, NEW gone, Changed(ch, gone), missed' = missed,
         \A t \in Topics : wire'.retained[t] =
           IF t \in GroupTopics(DOMAIN ch) /\ GroupShown(ch, slots', t)
           THEN GroupPayload(t[1], ch[t[2]], slots', hub')
           ELSE IF t \in GroupTopics(DOMAIN ch) \/ t \in gone THEN NoMessage
           ELSE wire.retained[t]
  PROVE  Mirrors'
<1> DEFINE shown(t) == t \in GroupTopics(DOMAIN ch) /\ GroupShown(ch, slots', t)
<1>1. DOMAIN ch \in SUBSET GroupIds /\ gone \subseteq {TopicOf(c) : c \in Config} /\ hub' = hub
  BY DEF Changed
<1>2. \A t \in GroupTopics(DOMAIN ch) :
        t # Gateway /\ t \notin gone /\ t[2] \in DOMAIN ch /\ t = <<t[1], t[2]>>
          /\ \A c \in Config : t # TopicOf(c)
  BY <1>1, GroupTopicIs
<1>3. \A c \in Config : TopicOf(c) \in Topics /\ TopicOf(c) # Gateway /\ TopicOf(c)[2] \in Addrs
  BY DeviceTopic
<1>4. GatewayShown'
  <2>1. Gateway \in Topics /\ Gateway \notin gone /\ Gateway \notin GroupTopics(DOMAIN ch)
    BY <1>1, <1>2, <1>3 DEF Topics
  <2>2. QED BY <1>1, <2>1 DEF Mirrors, GatewayShown
<1>5. DevicesShown'
  <2> SUFFICES ASSUME NEW i \in Announced', slots'[i].saved
               PROVE  wire'.retained[TopicOf(slots'[i].cfg)] = slots'[i].cfg
    BY DEF DevicesShown
  <2>1. i \in Announced /\ slots'[i] = slots[i] /\ TopicOf(slots[i].cfg) \notin gone
    BY DEF Changed
  <2>2. slots[i].cfg \in Config /\ wire.retained[TopicOf(slots[i].cfg)] = slots[i].cfg
    BY <2>1, AnnouncedIs DEF Mirrors, DevicesShown
  <2>3. TopicOf(slots[i].cfg) \in Topics /\ TopicOf(slots[i].cfg) \notin GroupTopics(DOMAIN ch)
    BY <1>2, <1>3, <2>2
  <2>4. QED BY <2>1, <2>2, <2>3
<1>6. GroupsShown'
  <2> SUFFICES ASSUME NEW g \in GroupSlots, Alone(g)', NEW kind \in Kinds
               PROVE  /\ g \in TypedGroups'
                      /\ wire'.retained[TopicOfGroup(kind, g)'] = PayloadOfGroup(kind, g)'
    BY DEF GroupsShown, Kinds
  <2> DEFINE t == TopicOfGroup(kind, g)'
  <2>1. /\ g \in TypedGroups' /\ groups'[g] # NoGroup /\ Typed(groups'[g], slots')
        /\ t \in Topics /\ t[1] \in {"attributes", GroupType(groups'[g], slots')}
        /\ t[1] = "attributes" <=> kind = "attributes"
        /\ t[2] = groups'[g].id
        /\ t \in GroupTopics({groups'[g].id}) /\ \A c \in Config : t # TopicOf(c)
    BY AloneNext
  <2> HIDE DEF t
  <2>2. CASE groups'[g].id \in DOMAIN ch
    <3>1. ch[t[2]] = groups'[g]
      BY <2>1, <2>2 DEF Changed
    <3>2. t \in GroupTopics(DOMAIN ch)
      BY <2>1, <2>2 DEF GroupTopics
    <3>3. GroupShown(ch, slots', t)
      BY <2>1, <3>1 DEF GroupShown
    <3>4. GroupPayload(t[1], ch[t[2]], slots', hub') = PayloadOfGroup(kind, g)'
      BY <2>1, <3>1, PayloadAt DEF PayloadOfGroup
    <3>5. QED BY <2>1, <3>2, <3>3, <3>4 DEF t
  <2>3. CASE groups'[g].id \notin DOMAIN ch
    <3>1. Alone(g) /\ t = TopicOfGroup(kind, g) /\ PayloadOfGroup(kind, g)' = PayloadOfGroup(kind, g)
      BY <2>1, <2>3, UnchangedGroup DEF t, SameGroup
    <3>2. wire.retained[t] = PayloadOfGroup(kind, g)
      BY <3>1 DEF Mirrors, GroupsShown
    <3>3. t \notin GroupTopics(DOMAIN ch) /\ t \notin gone
      BY <1>1, <1>2, <2>1, <2>3
    <3>4. QED BY <2>1, <3>1, <3>2, <3>3 DEF t
  <2>4. QED BY <2>2, <2>3
<1>7. NothingElse'
  <2> SUFFICES ASSUME NEW t \in Topics, wire'.retained[t] # NoMessage
               PROVE  t \in Current' \cup missed' \/ Unclear(t)'
    BY DEF NothingElse
  <2>1. CASE shown(t)
    <3>1. t[2] \in DOMAIN ch /\ t = <<t[1], t[2]>>
      BY <1>2, <2>1
    <3>2. PICK g \in GroupSlots : groups'[g] = ch[t[2]] /\ ch[t[2]].id = t[2]
      BY <2>1, <3>1 DEF GroupShown, Changed
    <3>3. /\ groups'[g] # NoGroup /\ Typed(groups'[g], slots')
          /\ t[1] \in {"attributes", GroupType(groups'[g], slots')} /\ t[2] = groups'[g].id
      BY <2>1, <3>1, <3>2 DEF GroupShown
    <3>4. PICK kind \in Kinds : t = GroupTopicOf(kind, groups'[g], slots')
      <4>1. CASE t[1] = "attributes"
        <5>1. t = GroupTopicOf("attributes", groups'[g], slots')
          BY <3>1, <3>3, <4>1 DEF GroupTopicOf
        <5>2. QED BY <5>1 DEF Kinds
      <4>2. CASE t[1] = GroupType(groups'[g], slots')
        <5>1. t = GroupTopicOf("config", groups'[g], slots')
          BY <3>1, <3>3, <4>2 DEF GroupTopicOf
        <5>2. QED BY <5>1 DEF Kinds
      <4>3. QED BY <3>3, <4>1, <4>2
    <3>5. g \in TypedGroups'
      BY <3>3 DEF TypedGroups, TypedIn
    <3>6. QED BY <3>4, <3>5, CurrentNext
  <2>2. CASE ~shown(t)
    <3>1. /\ wire.retained[t] # NoMessage
          /\ t \notin GroupTopics(DOMAIN ch) /\ t \notin gone
      BY <2>2
    <3>2. t \in Current \cup missed \/ Unclear(t)
      BY <3>1 DEF Mirrors, NothingElse
    <3>3. CASE Unclear(t)
      <4>1. PICK g \in GroupSlots :
              groups[g] # NoGroup /\ groups[g].id = t[2] /\ Ambiguous(groups[g], slots)
        BY <3>3 DEF Unclear
      <4>2. groups[g].id \in GroupIds
        BY <4>1, GroupsOK DEF GroupOK, Group
      <4>3. CASE t[2] \in DOMAIN ch
        <5>1. t = Gateway
          BY <1>1, <3>1, <4>1, <4>2, <4>3, TopicsAssumption DEF Topics, GroupTopics
        <5>2. QED BY <5>1, CurrentNext
      <4>4. CASE t[2] \notin DOMAIN ch
        <5>1. groups'[g] = groups[g] /\ Ambiguous(groups'[g], slots')
          BY <4>1, <4>4, UnchangedGroup
        <5>2. QED BY <4>1, <5>1 DEF Unclear
      <4>5. QED BY <4>3, <4>4
    <3>4. CASE t \in missed
      BY <3>4
    <3>5. CASE t = Gateway
      BY <3>5, CurrentNext
    <3>6. CASE \E i \in Announced : t = TopicOf(slots[i].cfg)
      <4>1. PICK i \in Announced : t = TopicOf(slots[i].cfg)
        BY <3>6
      <4>2. i \in Announced' /\ slots'[i] = slots[i]
        BY <3>1, <4>1 DEF Changed
      <4>3. QED BY <4>1, <4>2, CurrentNext
    <3>7. CASE \E kind \in Kinds, g \in TypedGroups : t = TopicOfGroup(kind, g)
      <4>1. PICK kind \in Kinds, g \in TypedGroups : t = TopicOfGroup(kind, g)
        BY <3>7
      <4>2. /\ g \in GroupSlots /\ groups[g] # NoGroup /\ t[2] = groups[g].id
            /\ t \in GroupTopics({groups[g].id})
        BY <4>1, TypedIs
      <4>3. groups[g].id \notin DOMAIN ch
        BY <3>1, <4>2 DEF GroupTopics
      <4>4. groups'[g] = groups[g] /\ (Alone(g)' => TopicOfGroup(kind, g)' = t)
        BY <4>1, <4>2, <4>3, UnchangedGroup DEF SameGroup
      <4>5. CASE Ambiguous(groups'[g], slots')
        BY <4>2, <4>4, <4>5 DEF Unclear
      <4>6. CASE ~Ambiguous(groups'[g], slots')
        <5>1. Alone(g)'
          BY <4>2, <4>4, <4>6 DEF Alone
        <5>2. /\ g \in TypedGroups'
              /\ t = GroupTopicOf(kind, groups'[g], slots')
          BY <4>2, <4>4, <5>1, AloneNext
        <5>3. QED BY <5>2, CurrentNext
      <4>7. QED BY <4>5, <4>6
    <3>8. QED BY <3>2, <3>3, <3>4, <3>5, <3>6, <3>7, CurrentIs
  <2>3. QED BY <2>1, <2>2
<1>8. QED BY <1>4, <1>5, <1>6, <1>7 DEF Mirrors

----------------------------------------------------------------------------
LEMMA EmptiedChanged ==
  ASSUME StoreInv, ~doubled, NEW i, NEW a, NEW t, Emptied(i, a, t)
  PROVE  Changed(PruneChanges(a), {TopicOf(slots[i].cfg)})
<1> DEFINE ch == PruneChanges(a)
           gone == {TopicOf(slots[i].cfg)}
<1>1. /\ i \in Slots /\ slots[i] \in Device /\ slots[i] # NoDevice /\ slots[i].cfg \in Config
      /\ slots[i].cfg.addr = a
      /\ slots'[i] = NoDevice /\ \A j \in Slots : j # i => slots'[j] = slots[j]
      /\ groups' = PrunedGroups(a) /\ hub' = hub
  BY RegistryAssumption DEF Emptied, Device
<1>2. /\ \A g \in GroupSlots : groups'[g] # groups[g] =>
           /\ groups[g] # NoGroup /\ groups[g].id \in DOMAIN ch
           /\ ch[groups[g].id] = groups'[g]
      /\ \A id \in DOMAIN ch : \E g \in GroupSlots :
           /\ groups[g] # NoGroup /\ groups[g].id = id
           /\ groups'[g] # groups[g] /\ ch[id] = groups'[g]
  BY <1>1, ChangesAre
<1> HIDE DEF ch
<1>3. \A g \in GroupSlots : groups'[g] # NoGroup =>
        /\ groups[g] # NoGroup /\ groups'[g].id = groups[g].id
        /\ a \notin groups'[g].members
  BY <1>1, PrunedGroup DEF StoreInv
<1>4. \A g, h \in GroupSlots :
        groups[g] # NoGroup /\ groups[h] # NoGroup /\ groups[g].id = groups[h].id => g = h
  BY DEF StoreInv, NoDoubles, GroupTwins
<1>5. DOMAIN ch \in SUBSET GroupIds
  <2>1. \A g \in GroupSlots : groups[g] # NoGroup => groups[g].id \in GroupIds
    BY DEF StoreInv, RegInv, RegTypeOK, Group
  <2>2. QED BY <1>2, <2>1
<1>6. \A g \in GroupSlots : groups'[g] # NoGroup /\ groups'[g].id \in DOMAIN ch =>
        ch[groups'[g].id] = groups'[g]
  BY <1>2, <1>3, <1>4
<1>7. \A id \in DOMAIN ch : ch[id] # NoGroup =>
        \E g \in GroupSlots : groups'[g] = ch[id] /\ ch[id].id = id
  BY <1>2, <1>3
<1>8. ASSUME NEW g \in GroupSlots,
             \/ groups[g] # NoGroup /\ groups[g].id \notin DOMAIN ch
             \/ groups'[g] # NoGroup /\ groups'[g].id \notin DOMAIN ch
      PROVE  /\ groups'[g] = groups[g]
             /\ \A b \in groups[g].members : \A j \in Slots :
                  /\ j \in At(slots, b) <=> j \in At(slots', b)
                  /\ j \in At(slots, b) => slots'[j] = slots[j]
  <2>1. groups'[g] = groups[g] /\ groups[g] # NoGroup
    BY <1>2, <1>3, <1>8
  <2>2. a \notin groups[g].members
    BY <1>3, <2>1
  <2>3. QED BY <1>1, <2>1, <2>2 DEF At
<1>9. gone \subseteq {TopicOf(c) : c \in Config}
  BY <1>1
<1>10. \A j \in Slots : j # i /\ slots[j] # NoDevice => TopicOf(slots[j].cfg) # TopicOf(slots[i].cfg)
  <2>1. \A j \in Slots : j # i /\ slots[j] # NoDevice =>
          slots[j].cfg \in Config
            /\ (slots[j].cfg.addr # slots[i].cfg.addr \/ slots[j].cfg.type # slots[i].cfg.type)
    BY <1>1 DEF StoreInv, RegInv, RegTypeOK, Device, NoDoubles, Twins
  <2>2. QED BY <1>1, <2>1, DeviceTopicsApart
<1>11. \A j \in Announced' : j \in Announced /\ slots'[j] = slots[j] /\ TopicOf(slots[j].cfg) \notin gone
  BY <1>1, <1>10 DEF Announced
<1>12. \A j \in Announced : TopicOf(slots[j].cfg) \notin gone => j \in Announced' /\ slots'[j] = slots[j]
  BY <1>1 DEF Announced
<1> HIDE DEF gone
<1>13. Changed(ch, gone)
  BY <1>1, <1>5, <1>6, <1>7, <1>8, <1>9, <1>11, <1>12 DEF Changed
<1>14. QED BY <1>13 DEF ch, gone

LEMMA GroupedChanged ==
  ASSUME StoreInv, ~doubled, NEW k, NEW id, NEW grp, Grouped(k, id, grp),
         NEW ch, DOMAIN ch = {id}, ch[id] = grp, id \in GroupIds
  PROVE  Changed(ch, {})
<1>1. /\ k \in GroupSlots /\ groups'[k] = grp
      /\ \A g \in GroupSlots : g # k => groups'[g] = groups[g]
      /\ grp # NoGroup => grp.id = id
      /\ slots' = slots /\ hub' = hub
      /\ groups[k] # NoGroup => groups[k].id = id
  BY DEF Grouped, GroupsWith
<1>2. \A g \in GroupSlots : g # k /\ groups[g] # NoGroup => groups[g].id # id
  BY DEF Grouped, StoreInv, NoDoubles, GroupTwins, GroupsWith
<1>3. \A g \in GroupSlots : groups'[g] # NoGroup /\ groups'[g].id \in DOMAIN ch =>
        ch[groups'[g].id] = groups'[g]
  BY <1>1, <1>2
<1>4. \A x \in DOMAIN ch : ch[x] # NoGroup =>
        \E g \in GroupSlots : groups'[g] = ch[x] /\ ch[x].id = x
  BY <1>1
<1>5. ASSUME NEW g \in GroupSlots,
             \/ groups[g] # NoGroup /\ groups[g].id \notin DOMAIN ch
             \/ groups'[g] # NoGroup /\ groups'[g].id \notin DOMAIN ch
      PROVE  /\ groups'[g] = groups[g]
             /\ \A b \in groups[g].members : \A j \in Slots :
                  /\ j \in At(slots, b) <=> j \in At(slots', b)
                  /\ j \in At(slots, b) => slots'[j] = slots[j]
  BY <1>1, <1>5
<1>6. Announced' = Announced
  BY <1>1 DEF Announced
<1>7. QED BY <1>1, <1>3, <1>4, <1>5, <1>6 DEF Changed

LEMMA MirrorsEmptied ==
  ASSUME StoreInv, StoreInv', ~doubled, link = "up", WireOK(wire), Mirrors,
         NEW e, NEW i, NEW a, NEW t, Emptied(i, a, t),
         e.kind = "removed", e.dev = slots[i], e.changes = PruneChanges(a),
         wire' = Handle(wire, e), missed' = missed
  PROVE  Mirrors'
<1> DEFINE ch == PruneChanges(a)
           T == TopicOf(slots[i].cfg)
           gone == {T}
<1>1. Changed(ch, gone)
  BY EmptiedChanged
<1>2. e.changes = ch
  OBVIOUS
<1> HIDE DEF ch
<1>3. \A u \in Topics : wire'.retained[u] =
        IF u \in GroupTopics(DOMAIN e.changes) /\ GroupShown(e.changes, slots', u)
        THEN GroupPayload(u[1], e.changes[u[2]], slots', hub')
        ELSE IF u \in GroupTopics(DOMAIN e.changes) \/ u = T THEN NoMessage
        ELSE wire.retained[u]
  BY HandleEmptied
<1>4. \A u \in Topics : wire'.retained[u] =
        IF u \in GroupTopics(DOMAIN ch) /\ GroupShown(ch, slots', u)
        THEN GroupPayload(u[1], ch[u[2]], slots', hub')
        ELSE IF u \in GroupTopics(DOMAIN ch) \/ u \in gone THEN NoMessage
        ELSE wire.retained[u]
  BY <1>2, <1>3
<1> HIDE DEF gone, T
<1>5. QED BY <1>1, <1>4, MirrorsChanged

LEMMA MirrorsGrouped ==
  ASSUME StoreInv, StoreInv', ~doubled, link = "up", WireOK(wire), Mirrors,
         NEW e, NEW k, NEW id \in GroupIds, NEW grp, Grouped(k, id, grp),
         e.kind = "groups", DOMAIN e.changes = {id}, e.changes[id] = grp,
         wire' = Handle(wire, e), missed' = missed
  PROVE  Mirrors'
<1> DEFINE ch == e.changes
<1>1. Changed(ch, {})
  BY GroupedChanged
<1>2. \A u \in Topics : wire'.retained[u] =
        IF u \in GroupTopics(DOMAIN e.changes) /\ GroupShown(e.changes, slots', u)
        THEN GroupPayload(u[1], e.changes[u[2]], slots', hub')
        ELSE IF u \in GroupTopics(DOMAIN e.changes) THEN NoMessage
        ELSE wire.retained[u]
  BY HandleGrouped
<1> HIDE DEF ch
<1>3. \A u \in Topics : wire'.retained[u] =
        IF u \in GroupTopics(DOMAIN ch) /\ GroupShown(ch, slots', u)
        THEN GroupPayload(u[1], ch[u[2]], slots', hub')
        ELSE IF u \in GroupTopics(DOMAIN ch) \/ u \in {} THEN NoMessage
        ELSE wire.retained[u]
  BY <1>2 DEF ch
<1>4. QED BY <1>1, <1>3, MirrorsChanged

----------------------------------------------------------------------------
LEMMA TypedTopicsApart ==
  ASSUME StoreInv, ~doubled, NEW kind \in Kinds, NEW other \in Kinds,
         NEW g \in TypedGroups, NEW h \in TypedGroups,
         TopicOfGroup(other, h) = TopicOfGroup(kind, g)
  PROVE  other = kind /\ h = g
<1>1. /\ g \in GroupSlots /\ groups[g] # NoGroup
      /\ TopicOfGroup(kind, g)[2] = groups[g].id
      /\ TopicOfGroup(kind, g)[1] = "attributes" <=> kind = "attributes"
  BY TypedIs
<1>2. /\ h \in GroupSlots /\ groups[h] # NoGroup
      /\ TopicOfGroup(other, h)[2] = groups[h].id
      /\ TopicOfGroup(other, h)[1] = "attributes" <=> other = "attributes"
  BY TypedIs
<1>3. other = kind
  BY <1>1, <1>2 DEF Kinds
<1>4. h = g
  BY <1>1, <1>2 DEF StoreInv, NoDoubles, GroupTwins
<1>5. QED BY <1>3, <1>4

LEMMA MirrorsHub ==
  ASSUME StoreInv, ~doubled, link = "up", WireOK(wire), Mirrors,
         NEW e, slots' = slots, groups' = groups, e.kind = "hub",
         wire' = Handle(wire, e), missed' = missed
  PROVE  Mirrors'
<1>1. /\ Announced' = Announced /\ TypedGroups' = TypedGroups
      /\ \A kind, g : TopicOfGroup(kind, g)' = TopicOfGroup(kind, g)
      /\ \A g : Alone(g)' <=> Alone(g)
      /\ \A t : Unclear(t)' <=> Unclear(t)
  BY DEF Announced, TypedGroups, TopicOfGroup, Alone, Unclear
<1>2. /\ TypedIn(groups', slots') = TypedGroups
      /\ \A kind, g : GroupTopicOf(kind, groups'[g], slots') = TopicOfGroup(kind, g)
      /\ \A kind, g : GroupPayload(kind, groups'[g], slots', hub') = PayloadOfGroup(kind, g)'
  BY DEF TypedGroups, TopicOfGroup, PayloadOfGroup
<1>3. /\ \A t \in Topics :
           t # Gateway /\ (\A kind \in Kinds, g \in TypedGroups : t # TopicOfGroup(kind, g)) =>
             wire'.retained[t] = wire.retained[t]
      /\ \A kind \in Kinds, g \in TypedGroups :
           (/\ TopicOfGroup(kind, g) \in Topics
            /\ \A other \in Kinds, h \in TypedGroups :
                 TopicOfGroup(other, h) = TopicOfGroup(kind, g) => other = kind /\ h = g)
           => wire'.retained[TopicOfGroup(kind, g)] = PayloadOfGroup(kind, g)'
      /\ (\A kind \in Kinds, g \in TypedGroups : Gateway # TopicOfGroup(kind, g)) =>
           wire'.retained[Gateway] = [hub |-> hub']
  BY <1>2, HandleHub
<1>4. Current' = Current
  <2>1. \A t : t \in Current' <=> t \in Current
    BY <1>1, <1>2, CurrentIs, CurrentNext
  <2>2. QED BY <1>1 DEF Current
<1>5. \A kind \in Kinds, g \in TypedGroups :
        wire'.retained[TopicOfGroup(kind, g)] = PayloadOfGroup(kind, g)'
  BY <1>3, TypedIs, TypedTopicsApart
<1>6. GatewayShown'
  BY <1>3, TypedIs DEF GatewayShown
<1>7. DevicesShown'
  <2> SUFFICES ASSUME NEW i \in Announced, slots[i].saved
               PROVE  wire'.retained[TopicOf(slots[i].cfg)] = slots[i].cfg
    BY <1>1 DEF DevicesShown
  <2>1. slots[i].cfg \in Config
    BY AnnouncedIs
  <2>2. TopicOf(slots[i].cfg) \in Topics /\ TopicOf(slots[i].cfg) # Gateway
          /\ \A kind \in Kinds, g \in TypedGroups : TopicOf(slots[i].cfg) # TopicOfGroup(kind, g)
    BY <2>1, DeviceTopic, TypedIs
  <2>3. wire.retained[TopicOf(slots[i].cfg)] = slots[i].cfg
    BY DEF Mirrors, DevicesShown
  <2>4. QED BY <1>3, <2>2, <2>3
<1>8. GroupsShown'
  BY <1>1, <1>5, AloneIs DEF GroupsShown
<1>9. NothingElse'
  <2> SUFFICES ASSUME NEW t \in Topics, wire'.retained[t] # NoMessage
               PROVE  t \in Current \cup missed \/ Unclear(t)
    BY <1>1, <1>4 DEF NothingElse
  <2>1. CASE t = Gateway \/ \E kind \in Kinds, g \in TypedGroups : t = TopicOfGroup(kind, g)
    BY <2>1, CurrentIs
  <2>2. CASE t # Gateway /\ \A kind \in Kinds, g \in TypedGroups : t # TopicOfGroup(kind, g)
    BY <1>3, <2>2 DEF Mirrors, NothingElse
  <2>3. QED BY <2>1, <2>2
<1>10. QED BY <1>6, <1>7, <1>8, <1>9 DEF Mirrors

----------------------------------------------------------------------------
LEMMA NotifiedMirrors ==
  ASSUME StoreInv, StoreInv', ~doubled, link = "up", WireOK(wire), Mirrors,
         NEW e, Notified(e), wire' = Handle(wire, e), missed' = missed
  PROVE  Mirrors'
<1>1. ASSUME NEW i, NEW dev, Placed(i, dev), e.dev = dev,
             e.kind = IF slots[i] = NoDevice THEN "added" ELSE "config"
      PROVE  Mirrors'
  BY <1>1, MirrorsPlaced
<1>2. ASSUME NEW i, NEW a, NEW t, Emptied(i, a, t), e.kind = "removed", e.dev = slots[i],
             e.changes = PruneChanges(a)
      PROVE  Mirrors'
  BY <1>2, MirrorsEmptied
<1>3. ASSUME NEW k, NEW id, NEW grp, Grouped(k, id, grp), e.kind = "groups",
             DOMAIN e.changes = {id}, e.changes[id] = grp
      PROVE  Mirrors'
  <2>1. id \in GroupIds
    BY <1>3 DEF Grouped
  <2>2. QED BY <1>3, <2>1, MirrorsGrouped
<1>4. CASE slots' = slots /\ groups' = groups /\ doubled' = doubled /\ e.kind = "hub"
  BY <1>4, MirrorsHub
<1>5. QED BY <1>1, <1>2, <1>3, <1>4 DEF Notified

(* The end of the collection puts the broker in step with the registry.    *)
LEMMA MirrorsFinish ==
  ASSUME StoreInv, ~doubled, link = "up", WireInv, NEW collected, FinishCleanup(collected),
         StoreStays
  PROVE  Mirrors'
<1> DEFINE D == DeviceMessages
           grouped(t) == \E kind \in Kinds, g \in TypedGroups : t = TopicOfGroup(kind, g)
           placed(t) == \E k \in DOMAIN D : t = D[k].topic
<1>1. /\ DOMAIN D = Announced
      /\ \A i \in Announced : D[i].topic = TopicOf(slots[i].cfg) /\ D[i].payload = slots[i].cfg
  BY DEF DeviceMessages
<1>2. /\ \A t \in Topics :
           t # Gateway /\ ~grouped(t) /\ ~placed(t) =>
             wire'.retained[t] = IF t \in StaleTopics(collected) THEN NoMessage
                                 ELSE wire.retained[t]
      /\ \A kind \in Kinds, g \in TypedGroups :
           (/\ TopicOfGroup(kind, g) \in Topics
            /\ \A other \in Kinds, h \in TypedGroups :
                 TopicOfGroup(other, h) = TopicOfGroup(kind, g) => other = kind /\ h = g)
           => wire'.retained[TopicOfGroup(kind, g)] = PayloadOfGroup(kind, g)
      /\ \A k \in DOMAIN D :
           (/\ D[k].topic \in Topics /\ ~grouped(D[k].topic)
            /\ \A l \in DOMAIN D : D[l].topic = D[k].topic => l = k)
           => wire'.retained[D[k].topic] = D[k].payload
      /\ ~grouped(Gateway) /\ ~placed(Gateway) => wire'.retained[Gateway] = [hub |-> hub]
  BY FinishIs DEF WireInv, TopicOfGroup, PayloadOfGroup
<1> HIDE DEF D
<1>3. /\ slots' = slots /\ groups' = groups /\ hub' = hub
      /\ Announced' = Announced /\ TypedGroups' = TypedGroups /\ Current' = Current
      /\ \A kind, g : TopicOfGroup(kind, g)' = TopicOfGroup(kind, g)
      /\ \A kind, g : PayloadOfGroup(kind, g)' = PayloadOfGroup(kind, g)
      /\ \A g : Alone(g)' <=> Alone(g)
  BY DEF StoreStays, Announced, TypedGroups, TopicOfGroup, PayloadOfGroup, Alone, Current
<1>4. \A i \in Announced :
        /\ slots[i].cfg \in Config
        /\ TopicOf(slots[i].cfg) \in Topics /\ TopicOf(slots[i].cfg) # Gateway
        /\ ~grouped(TopicOf(slots[i].cfg))
  BY AnnouncedIs, DeviceTopic, TypedIs
<1>5. \A i, j \in Announced : TopicOf(slots[i].cfg) = TopicOf(slots[j].cfg) => i = j
  BY <1>4 DEF Announced, TopicOf, StoreInv, NoDoubles, Twins
<1>6. ~grouped(Gateway) /\ ~placed(Gateway)
  BY <1>1, <1>4, TypedIs
<1>7. GatewayShown'
  BY <1>2, <1>3, <1>6 DEF GatewayShown
<1>8. DevicesShown'
  <2> SUFFICES ASSUME NEW i \in Announced
               PROVE  wire'.retained[TopicOf(slots[i].cfg)] = slots[i].cfg
    BY <1>3 DEF DevicesShown
  <2>1. D[i].topic \in Topics /\ ~grouped(D[i].topic)
    BY <1>1, <1>4
  <2>2. \A l \in DOMAIN D : D[l].topic = D[i].topic => l = i
    BY <1>1, <1>5
  <2> HIDE DEF grouped
  <2>3. QED BY <1>1, <1>2, <2>1, <2>2
<1>9. GroupsShown'
  <2> SUFFICES ASSUME NEW g \in GroupSlots, Alone(g), NEW kind \in Kinds
               PROVE  /\ g \in TypedGroups
                      /\ wire'.retained[TopicOfGroup(kind, g)] = PayloadOfGroup(kind, g)
    BY <1>3 DEF GroupsShown, Kinds
  <2>1. g \in TypedGroups
    BY AloneIs
  <2>2. TopicOfGroup(kind, g) \in Topics
    BY <2>1, TypedIs
  <2>3. \A other \in Kinds, h \in TypedGroups :
          TopicOfGroup(other, h) = TopicOfGroup(kind, g) => other = kind /\ h = g
    BY <2>1, TypedTopicsApart
  <2>4. QED BY <1>2, <2>1, <2>2, <2>3
<1>10. NothingElse'
  <2> SUFFICES ASSUME NEW t \in Topics, wire'.retained[t] # NoMessage, t \notin Current
               PROVE  t \in missed'
    BY <1>3 DEF NothingElse
  <2>1. t # Gateway /\ ~grouped(t) /\ ~placed(t)
    BY <1>1, CurrentIs
  <2>2. t \notin StaleTopics(collected) /\ wire.retained[t] # NoMessage
    BY <1>2, <2>1
  <2>3. t \notin collected
    BY <2>2, ExpectedIs DEF StaleTopics
  <2>4. CASE t \in DiscoveryTopics
    <3>1. t \in offered
      BY <2>2, <2>4 DEF FinishCleanup, WireInv, Collecting
    <3>2. QED BY <2>3, <3>1 DEF FinishCleanup
  <2>5. CASE t \notin DiscoveryTopics
    BY <2>2, <2>5 DEF FinishCleanup
  <2>6. QED BY <2>4, <2>5
<1>11. QED BY <1>7, <1>8, <1>9, <1>10 DEF Mirrors

LEMMA MirrorsStay ==
  ASSUME Mirrors, StoreStays, wire' = wire, missed' = missed
  PROVE  Mirrors'
<1>1. /\ slots' = slots /\ groups' = groups /\ hub' = hub
      /\ Announced' = Announced /\ TypedGroups' = TypedGroups /\ Current' = Current
      /\ \A kind, g : TopicOfGroup(kind, g)' = TopicOfGroup(kind, g)
      /\ \A kind, g : PayloadOfGroup(kind, g)' = PayloadOfGroup(kind, g)
      /\ \A g : Alone(g)' <=> Alone(g)
      /\ \A t : Unclear(t)' <=> Unclear(t)
  BY DEF StoreStays, Announced, TypedGroups, TopicOfGroup, PayloadOfGroup, Alone, Unclear, Current
<1>2. QED BY <1>1 DEF Mirrors, GatewayShown, DevicesShown, GroupsShown, NothingElse

LEMMA BrokerStays ==
  ASSUME GatewayInv, WireInv, BrokerMirrors, [Next]_vars
  PROVE  BrokerMirrors'
<1>1. SUFFICES ASSUME Settled' PROVE Mirrors'
  BY MirrorsIs, PTL
<1>2. link' = "up" /\ cleanup' = "DONE" /\ ~doubled'
  BY <1>1 DEF Settled
<1>3. CASE Operates
  <2>1. PICK e : Operation(e) /\ MqttHears(e)
    BY <1>3 DEF Operates
  <2>2. Notified(e) /\ StoreInv'
    BY <2>1, OperationNotifies DEF GatewayInv
  <2>3. link = "up" /\ cleanup = "DONE" /\ missed' = missed /\ wire' = Handle(wire, e)
    BY <1>2, <2>1 DEF MqttHears, is_connected
  <2>4. ~doubled
    BY <1>2, <2>2 DEF Notified, Placed, Emptied, Grouped
  <2>5. Mirrors
    BY <2>3, <2>4, MirrorsIs DEF Settled
  <2>6. QED BY <2>2, <2>3, <2>4, <2>5, NotifiedMirrors DEF GatewayInv, WireInv
<1>4. CASE Boots
  BY <1>2, <1>4 DEF Boots, MqttRestarts
<1>5. CASE BrokerSteps
  <2>1. StoreStays /\ ~doubled
    BY <1>2, <1>5 DEF BrokerSteps, StoreStays
  <2>2. CASE StartCollection
    BY <1>2, <2>2 DEF StartCollection
  <2>3. CASE SeesOutage
    BY <1>2, <2>3 DEF SeesOutage
  <2>4. CASE \E late \in SUBSET (offered \ Expected) : FinishCleanup(offered \ late)
    <3>1. PICK collected : FinishCleanup(collected)
      BY <2>4
    <3>2. link = "up"
      BY <1>2, <3>1 DEF FinishCleanup
    <3>3. QED BY <2>1, <3>1, <3>2, MirrorsFinish DEF GatewayInv
  <2>5. CASE Connect
    BY <1>2, <2>5 DEF Connect, WireInv, Outage
  <2>6. CASE LinkDies
    BY <1>2, <2>6 DEF LinkDies
  <2>7. CASE Disconnect
    BY <1>2, <2>7 DEF Disconnect
  <2>8. QED BY <1>5, <2>2, <2>3, <2>4, <2>5, <2>6, <2>7 DEF BrokerSteps, MqttStep
<1>6. CASE BrowserSteps
  <2>1. StoreStays /\ link = "up" /\ cleanup = "DONE" /\ ~doubled /\ wire' = wire /\ missed' = missed
    BY <1>2, <1>6 DEF BrowserSteps, StoreStays, mqttVars
  <2>2. Mirrors
    BY <2>1, MirrorsIs DEF Settled
  <2>3. QED BY <2>1, <2>2, MirrorsStay
<1>7. QED BY <1>3, <1>4, <1>5, <1>6, GatewayParts DEF GatewayInv, Parts

(* Once a connection's cleanup is over, the broker shows the registry and  *)
(* nothing else than what BrokerMirrors names, through every edit, import, *)
(* discovered remote, outage and restart, with the link up or not,         *)
(* whatever part of the stale discoveries the collection was delivered     *)
(* (finish_stale_cleanup_, republish_all_, on_device_added,                *)
(* on_config_changed, on_group_upserted, on_group_removed).                *)
THEOREM GatewayBroker == Spec => []BrokerMirrors
<1>1. Init => BrokerMirrors
  BY DEF Init, MqttInit, Settled, BrokerMirrors
<1>2. GatewayInv /\ WireInv /\ BrokerMirrors /\ [Next]_vars => BrokerMirrors' /\ WireInv'
  BY BrokerStays, WireStays
<1>3. QED BY <1>1, <1>2, WireInit, GatewayInvariant, PTL DEF Spec

----------------------------------------------------------------------------
(* Every set of members is what some list without repetitions lists.       *)
LEMMA MembersListed ==
  ASSUME NEW M \in SUBSET Addrs
  PROVE  \E ids \in Seq(Addrs) : Distinct(ids) /\ MembersOf(ids) = M
<1>1. IsFiniteSet(M)
  BY RegistryAssumption, FS_Subset
<1>2. PICK n \in Nat : ExistsBijection(1 .. n, M)
  BY <1>1, FS_NatBijection
<1>3. PICK f : f \in Bijection(1 .. n, M)
  BY <1>2 DEF ExistsBijection
<1>4. /\ f \in [1 .. n -> M]
      /\ \A k, l \in 1 .. n : f[k] = f[l] => k = l
      /\ \A x \in M : \E k \in 1 .. n : f[k] = x
  BY <1>3 DEF Bijection, Injection, Surjection, IsInjective
<1>5. f \in Seq(Addrs)
  BY <1>4
<1>6. Distinct(f) /\ MembersOf(f) = M
  BY <1>4 DEF Distinct, MembersOf
<1>7. QED BY <1>5, <1>6

LEMMA OperationIsRegistrys ==
  ASSUME NEW e, Operation(e)
  PROVE  RegNext
<1>1. ASSUME NEW id \in GroupIds, NEW M \in SUBSET Addrs, StoreGroup(id, M)
      PROVE  RegNext
  <2>1. PICK ids \in Seq(Addrs) : Distinct(ids) /\ MembersOf(ids) = M
    BY MembersListed
  <2>2. UpsertGroup(id, ids)
    BY <1>1, <2>1 DEF UpsertGroup
  <2>3. QED BY <2>2 DEF RegNext
<1>2. QED BY <1>1 DEF Operation, RegNext

(* The gateway implements the registry: every step of it is an operation   *)
(* of the registry, a flush, a restart, or leaves the registry alone.      *)
THEOREM GatewayRegistry == Spec => RegSpec
<1>1. Init => RegInit
  BY DEF Init
<1>2. GatewayInv /\ [Next]_vars => [RegNext]_regVars
  <2> SUFFICES ASSUME GatewayInv, [Next]_vars PROVE [RegNext]_regVars
    OBVIOUS
  <2>1. CASE Operates
    BY <2>1, OperationIsRegistrys DEF Operates
  <2>2. CASE Boots
    BY <2>2 DEF Boots, RegNext
  <2>3. CASE StoreStays
    BY <2>3 DEF StoreStays, RegNext
  <2>4. QED BY <2>1, <2>2, <2>3, GatewayParts DEF GatewayInv, Parts, BrokerSteps, BrowserSteps
<1>3. QED BY <1>1, <1>2, GatewayInvariant, PTL DEF Spec, RegSpec

(* Hence the properties of the registry hold of the gateway, whatever its  *)
(* adapters do.                                                            *)
THEOREM GatewayStore ==
  Spec => [](RegTypeOK /\ StoreMatches /\ TwinsNeedTornWrite /\ MembersKnown)
<1>1. QED
  BY GatewayRegistry, RegistryTypes, RegistryStoreMatches, RegistryTwins, RegistryMembersKnown, PTL
=============================================================================
