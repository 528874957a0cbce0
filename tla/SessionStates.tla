--------------------------- MODULE SessionStates ---------------------------
(***************************************************************************)
(* The persisted session states and the transition table every change of   *)
(* session-state.json goes through (core/state_machine.py, and the enum    *)
(* SessionStateName of core/models.py).                                    *)
(***************************************************************************)

\* ALLOWED_TRANSITIONS: for every state the states it may be left for.
ALLOWED_TRANSITIONS ==
  [ IDLE                  |-> {"DEVICE_ATTACHED", "INTAKE", "DISCOVER"},
    DEVICE_ATTACHED       |-> {"INTAKE", "ACCESS_ENABLEMENT", "DISCOVER", "BLOCKED"},
    INTAKE                |-> {"ACCESS_ENABLEMENT", "DISCOVER", "BLOCKED"},
    ACCESS_ENABLEMENT     |-> {"DEEP_SCAN", "QUESTION_GATE", "BLOCKED"},
    DISCOVER              |-> {"DEEP_SCAN", "ASSESS", "PROFILE_SYNTHESIS", "BLOCKED"},
    DEEP_SCAN             |-> {"PROFILE_SYNTHESIS", "ASSESS", "BLOCKED"},
    PROFILE_SYNTHESIS     |-> {"ASSESS", "MATCH_MASTER", "BLOCKED"},
    MATCH_MASTER          |-> {"ASSESS", "RECOMMEND", "PATH_SELECT", "BLOCKED"},
    ASSESS                |-> {"RECOMMEND", "BACKUP_PLAN", "PATH_SELECT",
                               "BLOCKER_CLASSIFY", "BLOCKED"},
    RECOMMEND             |-> {"BACKUP_PLAN", "PATH_SELECT", "BLOCKED"},
    BACKUP_PLAN           |-> {"BACKUP_READY", "UNLOCK_PREP", "PATH_SELECT", "BLOCKED"},
    BACKUP_READY          |-> {"PREVIEW_BUILD", "FLASH_PREP", "BUILD_GENERIC",
                               "BUILD_DEVICE", "ITERATE", "BLOCKED"},
    UNLOCK_PREP           |-> {"UNLOCK", "BLOCKED"},
    UNLOCK                |-> {"BASELINE_CAPTURE", "BLOCKED"},
    BASELINE_CAPTURE      |-> {"PATH_SELECT", "BLOCKED"},
    PATH_SELECT           |-> {"BLOCKER_CLASSIFY", "BUILD_GENERIC", "BUILD_DEVICE", "BLOCKED"},
    BLOCKER_CLASSIFY      |-> {"REMEDIATION_DECIDE", "CODEGEN_TASK", "QUESTION_GATE",
                               "BUILD_GENERIC", "BUILD_DEVICE", "ITERATE", "BLOCKED"},
    REMEDIATION_DECIDE    |-> {"TASK_CREATE", "QUESTION_GATE", "CONNECTIVITY_VALIDATE",
                               "SECURITY_VALIDATE", "BLOCKED"},
    TASK_CREATE           |-> {"CODEGEN_WRITE", "QUESTION_GATE", "BLOCKED"},
    CODEGEN_TASK          |-> {"CODEGEN_WRITE", "PATCH_APPLY", "QUESTION_GATE", "BLOCKED"},
    CODEGEN_WRITE         |-> {"PATCH_APPLY", "QUESTION_GATE", "BLOCKED"},
    PATCH_APPLY           |-> {"EXECUTE_ARTIFACT", "QUESTION_GATE", "BLOCKED"},
    EXECUTE_ARTIFACT      |-> {"INSPECT_RESULT", "QUESTION_GATE", "BLOCKED"},
    INSPECT_RESULT        |-> {"BLOCKER_CLASSIFY", "CONNECTIVITY_VALIDATE",
                               "SECURITY_VALIDATE", "QUESTION_GATE", "BLOCKED"},
    EXECUTE_STEP          |-> {"CONNECTIVITY_VALIDATE", "SECURITY_VALIDATE", "ITERATE",
                               "QUESTION_GATE", "BLOCKED"},
    CONNECTIVITY_VALIDATE |-> {"ITERATE", "QUESTION_GATE", "BLOCKED"},
    SECURITY_VALIDATE     |-> {"ITERATE", "QUESTION_GATE", "BLOCKED"},
    ITERATE               |-> {"BLOCKER_CLASSIFY", "PATH_SELECT", "DEEP_SCAN",
                               "BUILD_GENERIC", "BUILD_DEVICE", "BLOCKED"},
    QUESTION_GATE         |-> {"EXECUTE_STEP", "FLASH_PREP", "BLOCKER_CLASSIFY",
                               "BACKUP_READY", "BLOCKED"},
    BUILD_GENERIC         |-> {"SIGN_IMAGES", "BLOCKED"},
    BUILD_DEVICE          |-> {"SIGN_IMAGES", "BLOCKED"},
    PREVIEW_BUILD         |-> {"PREVIEW_REVIEW", "INTERACTIVE_VERIFY", "BLOCKED"},
    PREVIEW_REVIEW        |-> {"INTERACTIVE_VERIFY", "BLOCKED"},
    INTERACTIVE_VERIFY    |-> {"INSTALL_APPROVAL", "BLOCKED"},
    SIGN_IMAGES           |-> {"FLASH_PREP", "BLOCKED"},
    FLASH_PREP            |-> {"INSTALL_APPROVAL", "FLASH", "BLOCKED"},
    INSTALL_APPROVAL      |-> {"FLASH", "BLOCKED"},
    FLASH                 |-> {"BOOTSTRAP_DEVICE", "POST_INSTALL_VERIFY", "RESTORE", "BLOCKED"},
    BOOTSTRAP_DEVICE      |-> {"BRINGUP", "BLOCKED"},
    BRINGUP               |-> {"HARDEN", "BLOCKED"},
    HARDEN                |-> {"VALIDATE", "BLOCKED"},
    VALIDATE              |-> {"POST_INSTALL_VERIFY", "PROMOTE", "RESTORE", "BLOCKED"},
    POST_INSTALL_VERIFY   |-> {"COMPLETE", "RESTORE", "BLOCKED"},
    COMPLETE              |-> {},
    PROMOTE               |-> {},
    RESTORE               |-> {"ASSESS", "BLOCKED"},
    BLOCKED               |-> {"ASSESS", "BLOCKER_CLASSIFY"} ]

SessionStateName == DOMAIN ALLOWED_TRANSITIONS

is_transition_allowed(current, target) == target \in ALLOWED_TRANSITIONS[current]

\* _safe_transition: a transition the table refuses is dropped without error.
safe_transition(current, target) ==
  IF is_transition_allowed(current, target) THEN target ELSE current

=============================================================================
