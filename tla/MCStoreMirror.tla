--------------------------- MODULE MCStoreMirror ---------------------------
(* Instances of StoreMirror for TLC. *)
EXTENDS StoreMirror

CONSTANTS d1, d2, power

Everything == [devices |-> {}, adapters |-> {}, capabilities |-> {}]
OneDevice  == [devices |-> {d1}, adapters |-> {}, capabilities |-> {power}]
Section(retention, selection) ==
  [enabled |-> TRUE, retention |-> retention, selection |-> selection]

MCConfigs == {Section(Forever, Everything), Section(2, OneDevice)}
MCAdapterOf == [d \in {d1, d2} |-> "zigbee"]
MCTimed == {"history", "journals", "persons"}
MCClock == {6, 8, 9}
MCMaxCalls == [devices |-> 4, history |-> 3, journals |-> 2, keys |-> 4, persons |-> 4]
MCFamilies == {"devices", "history", "journals", "keys", "persons"}
=============================================================================
