------------------------------ MODULE Gateway ------------------------------
(***************************************************************************)
(* The registry with its adapters: every operation is one step of the main *)
(* loop in which the registry changes, saves and notifies, and the MQTT    *)
(* adapter and the web server react.  The user edits through the web       *)
(* server, remotes are discovered from the radio, the broker's link comes  *)
(* and goes, and the gateway restarts at any point.  Neither adapter       *)
(* writes to the registry on its own account, so a behaviour need look at  *)
(* one of them only: the other stays unconnected.  A restart in the middle *)
(* of a flush is looked at with neither of them.                           *)
(***************************************************************************)
EXTENDS MqttAdapter, WebServer

CONSTANTS
  Edits,      \* the configurations a user saves
  GroupEdits, \* the groups a user saves: pairs of an id and a list
  Strangers,  \* addresses of remotes heard on the radio
  MaxEdits,   \* bound on the registry operations, for each value of observed
  MaxImports, \* bound on the imports (see ImportBound)
  MaxOutages, \* bound on the losses of the MQTT link
  MaxRestarts \* bound on the restarts

(* What the user saves is well formed: the parsers of the web server's     *)
(* handlers refuse anything else.                                          *)
ASSUME GatewayAssumption ==
  Edits \subseteq Config /\ GroupEdits \subseteq GroupIds \X Seq(Addrs) /\ Strangers \subseteq Addrs

VARIABLES
  observed,  \* what is looked at: the store, the broker's side or the browser's
  budget     \* what is left of each bound

vars == <<regVars, mqttVars, webVars, observed, budget>>

Init ==
  /\ RegInit /\ MqttInit /\ WebInit
  /\ observed \in {"store", "broker", "browser"}
  /\ budget = [edits |-> MaxEdits[observed], imports |-> MaxImports, outages |-> MaxOutages,
               restarts |-> MaxRestarts]

Spend(what) ==
  budget[what] > 0 /\ budget' = [budget EXCEPT ![what] = @ - 1] /\ UNCHANGED observed

(* A handler runs to its end: nothing else happens while an import does.   *)
Idle == todo = {}
Edit(e) == Spend("edits") /\ Idle /\ MqttHears(e) /\ WebHears(e)

----------------------------------------------------------------------------
UserUpserts == \E c \in Edits : Upsert(c) /\ Edit(UpsertEvent(c))
UserRemoves ==
  \E a \in Addrs, t \in Types : RemoveDevice(a, t) /\ Edit(RemoveEvent(a, t))
UserUpsertsGroup ==
  \E e \in GroupEdits : UpsertGroup(e[1], e[2]) /\ Edit(GroupEvent(e[1], MembersOf(e[2])))
UserRemovesGroup == \E id \in GroupIds : RemoveGroup(id) /\ Edit(RemoveGroupEvent(id))
RemoteHeard == \E a \in Strangers : TrackRemote(a) /\ Edit(TrackEvent(a))
UserNamesHub == \E n \in HubNames : SetHubName(n) /\ Edit(HubEvent)

(* With the store and the broker an import counts as an edit.  A backup    *)
(* that cannot be imported any more is of no interest.                     *)
ImportBound == IF observed = "browser" THEN "imports" ELSE "edits"
UserExports ==
  /\ Idle /\ budget[ImportBound] > 0 /\ backup = NoBackup /\ ExportConfig
  /\ UNCHANGED <<regVars, mqttVars, observed, budget>>
UserImports == Spend(ImportBound) /\ StartImport /\ UNCHANGED <<regVars, mqttVars>>
ImportApplies ==
  /\ todo # {}
  /\ Applied(Entry) /\ MqttHears(EntryEvent(Entry)) /\ Broadcast(EntryEvent(Entry))
  /\ EntryDone
  /\ UNCHANGED <<enabled, backup, observed, budget>>
ImportSkips ==
  /\ todo # {}
  /\ Refused(Entry)
  /\ EntryDone
  /\ UNCHANGED <<regVars, mqttVars, client, enabled, synced, backup, observed, budget>>

----------------------------------------------------------------------------
Adapters == Idle /\ MqttStep /\ UNCHANGED <<regVars, webVars, observed, budget>>
LinkUp == Idle /\ observed = "broker" /\ Connect /\ UNCHANGED <<regVars, webVars, observed, budget>>
LinkDown ==
  /\ Idle /\ Spend("outages") /\ (LinkDies \/ Disconnect)
  /\ UNCHANGED <<regVars, webVars>>
LinkFound == Idle /\ link = "half" /\ Disconnect /\ UNCHANGED <<regVars, webVars, observed, budget>>
Browser ==
  /\ Idle /\ observed = "browser" /\ UNCHANGED <<regVars, mqttVars, observed, budget>>
  /\ ClientOpens \/ ClientCloses \/ Toggle
Flushes == Idle /\ observed = "store" /\ Flush /\ UNCHANGED <<mqttVars, webVars, observed, budget>>
Restarts ==
  /\ Spend("restarts")
  /\ \E S \in IF observed = "store" THEN SUBSET Unflushed ELSE {{}, Unflushed} : Restart(S)
  /\ MqttRestarts /\ WebRestarts

Next ==
  \/ UserUpserts \/ UserRemoves \/ UserUpsertsGroup \/ UserRemovesGroup
  \/ RemoteHeard \/ UserNamesHub \/ UserExports \/ UserImports
  \/ ImportApplies \/ ImportSkips
  \/ Adapters \/ LinkUp \/ LinkDown \/ LinkFound \/ Browser \/ Flushes \/ Restarts

Spec == Init /\ [][Next]_vars
=============================================================================
