--------------------------- MODULE HistoryFilter ---------------------------
(***************************************************************************)
(* Which devices, commands and executions the history records              *)
(* (crates/core/src/history_filter.rs).  A selection has three lists, and  *)
(* an empty list allows everything.                                        *)
(***************************************************************************)
CONSTANTS
  Devices,
  Attributes,   (* attribute names; a capability is an attribute here       *)
  AdapterOf     (* device_adapter_name(): the part of a device's identifier *)
                (* before the colon, which is also its metadata's source    *)

\* A trigger's payload: none, an object that names no device (an interval, a
\* time of the day), or one that names a device and an attribute.
Payload == [type : {"none", "event"}]
           \cup [type : {"device"}, device : Devices, attribute : Attributes]

Lists(list, x) == list = {} \/ x \in list

AllowsDevice(sel, d) == Lists(sel.devices, d) /\ Lists(sel.adapters, AdapterOf[d])

AllowsCapability(sel, a) == Lists(sel.capabilities, a)

AllowsPayload(sel, p) ==
  /\ IF p.type = "device" THEN AllowsDevice(sel, p.device)
                          ELSE sel.devices = {} /\ sel.adapters = {}
  /\ p.type = "device" => AllowsCapability(sel, p.attribute)
  /\ p.type = "event" => sel.capabilities = {}

RecordsDevice(sel, d)       == AllowsDevice(sel, d)
RecordsAttribute(sel, d, a) == AllowsDevice(sel, d) /\ AllowsCapability(sel, a)
RecordsCommand(sel, e)      == AllowsDevice(sel, e.device) /\ AllowsCapability(sel, e.capability)

\* A list of devices alone lets every scene through.
RecordsScene(sel, e) ==
  \/ sel.adapters = {} /\ sel.capabilities = {}
  \/ \E d \in e.targets : AllowsDevice(sel, d)

RecordsAutomation(sel, e) ==
  /\ AllowsPayload(sel, e.payload)
  /\ \/ sel.adapters = {} /\ sel.capabilities = {}
     \/ e.targets = {}
     \/ \E d \in e.targets : AllowsDevice(sel, d)

=============================================================================
