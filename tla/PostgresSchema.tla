--------------------------- MODULE PostgresSchema ---------------------------
(***************************************************************************)
(* The migrations of the PostgreSQL store, statement by statement          *)
(* (migrate_to_v1 to migrate_to_v6 of postgres.rs).                        *)
(***************************************************************************)
EXTENDS Naturals, Sequences

Creates(v, names) == [i \in DOMAIN names |-> [does |-> "create", what |-> names[i], v |-> v]]
Adds(v, name)     == <<[does |-> "add", what |-> name, v |-> v]>>
Stamps(v)         == <<[does |-> "stamp", what |-> "schema_version", v |-> v]>>

MigrateToV1 ==
  Creates(1, <<"rooms", "devices", "device_history", "idx_device_history_device_time",
               "attribute_history", "idx_attribute_history_device_attr_time",
               "command_audit", "idx_command_audit_device_time",
               "scene_execution_history", "idx_scene_history_scene_time",
               "automation_execution_history", "idx_automation_history_automation_time">>)
  \o Stamps(1)

MigrateToV2 == Creates(2, <<"automation_runtime_state">>) \o Stamps(2)

MigrateToV3 ==
  Creates(3, <<"groups", "group_members", "idx_group_members_group_order">>) \o Stamps(3)

MigrateToV4 == Creates(4, <<"api_keys">>) \o Stamps(4)

MigrateToV5 ==
  Adds(5, "api_keys.person_id")
  \o Creates(5, <<"persons", "person_trackers", "idx_person_trackers_person_order",
                  "zones", "person_history", "idx_person_history_person_time">>)
  \o Stamps(5)

MigrateToV6 == Adds(6, "persons.state_changed_at") \o Stamps(6)

Script == MigrateToV1 \o MigrateToV2 \o MigrateToV3 \o MigrateToV4 \o MigrateToV5 \o MigrateToV6

=============================================================================
