-------------------------- MODULE MCIdeExtension --------------------------
(***************************************************************************)
(* Instances of IdeExtension for TLC.                                      *)
(***************************************************************************)
EXTENDS IdeExtension, TLC

\* No property tells the slots or the activities apart.
SlotActivitySymmetry == Permutations(Flushes) \cup Permutations(Activities)

\* What the agent's parser requires (agent/src-tauri/src/core/event.rs:30-48).
AgentEventFields ==
    {"ts", "user_id", "device_id", "session_id", "app_bundle", "category", "source",
     "duration_ms", "chars_in", "lines_added", "lines_removed"}
=============================================================================
