--------------------------- MODULE ComponentState ---------------------------
(***************************************************************************)
(* The life-cycle state every component (thread pool, scheduler, logger)   *)
(* embeds: src/include/iot/component.h and the switch of                   *)
(* iot_component_set_state.  The masks passed to iot_component_wait are    *)
(* sets of states here.                                                    *)
(***************************************************************************)

States == {"INITIAL", "STOPPED", "RUNNING", "DELETED", "STARTING"}

SetStateValid(cur, new) ==
  \/ new \in {"STOPPED", "RUNNING", "STARTING"} /\ cur # "DELETED"
  \/ new = "DELETED" /\ cur # "RUNNING"

AfterSetState(cur, new) == IF SetStateValid(cur, new) THEN new ELSE cur

=============================================================================
