----------------------------- MODULE FocusTable -----------------------------
(***************************************************************************)
(* The policy the product is configured with: what happens when a stream   *)
(* asks for the focus while another has it. AudioFocusParser reads it from *)
(* audio_interrupt_policy_config.xml into focusCfgMap_. A pair is          *)
(* <<existing stream's type, incoming stream's type>>; pairs named in no   *)
(* set may play together. All entries are forced (is_forced="true").       *)
(***************************************************************************)

ForceStop == "INTERNAL_FORCE_STOP"

Sources ==
  {"SOURCE_MIC", "SOURCE_PLAYBACK_CAPTURE", "SOURCE_REMOTE_CAST",
   "SOURCE_ULTRASONIC", "SOURCE_VOICE_CALL", "SOURCE_VOICE_COMMUNICATION",
   "SOURCE_VOICE_MESSAGE", "SOURCE_VOICE_RECOGNITION",
   "SOURCE_VOICE_TRANSCRIPTION", "SOURCE_WAKEUP"}

StreamTypes ==
  {"ACCESSIBILITY", "ALARM", "DTMF", "GAME", "MOVIE", "MUSIC", "NAVIGATION",
   "NOTIFICATION", "RING", "SPEECH", "SYSTEM", "SYSTEM_ENFORCED",
   "ULTRASONIC", "VOICE_ASSISTANT", "VOICE_CALL", "VOICE_CALL_ASSISTANT",
   "VOICE_COMMUNICATION", "VOICE_MESSAGE", "VOICE_RING"}

FocusTypes == Sources \cup StreamTypes \cup {ForceStop}
Ordinary == FocusTypes \ {ForceStop}

(* The one pair the table has no entry for.                                *)
Missing == {<<ForceStop, ForceStop>>}

(* "deny": the incoming stream is rejected.                                *)
Denied ==
       {"SOURCE_MIC"} \X
       {"SOURCE_MIC", "SOURCE_VOICE_MESSAGE", "SOURCE_VOICE_RECOGNITION",
        "SOURCE_WAKEUP", "DTMF", "NOTIFICATION", "SYSTEM"}
  \cup {"SOURCE_ULTRASONIC"} \X
       {"SOURCE_ULTRASONIC", "SOURCE_WAKEUP"}
  \cup {"SOURCE_VOICE_CALL"} \X
       {"SOURCE_MIC", "SOURCE_PLAYBACK_CAPTURE", "SOURCE_REMOTE_CAST",
        "SOURCE_ULTRASONIC", "SOURCE_VOICE_CALL", "SOURCE_VOICE_MESSAGE",
        "SOURCE_VOICE_RECOGNITION", "SOURCE_VOICE_TRANSCRIPTION",
        "SOURCE_WAKEUP"}
  \cup {"SOURCE_VOICE_COMMUNICATION"} \X
       {"SOURCE_MIC", "SOURCE_ULTRASONIC", "SOURCE_VOICE_MESSAGE",
        "SOURCE_VOICE_RECOGNITION", "SOURCE_WAKEUP"}
  \cup {"SOURCE_VOICE_MESSAGE"} \X
       {"SOURCE_MIC", "SOURCE_VOICE_MESSAGE", "SOURCE_VOICE_RECOGNITION",
        "SOURCE_WAKEUP"}
  \cup {"SOURCE_VOICE_RECOGNITION"} \X
       {"SOURCE_VOICE_RECOGNITION", "SOURCE_WAKEUP"}
  \cup {"SOURCE_VOICE_TRANSCRIPTION"} \X
       {"SOURCE_VOICE_MESSAGE", "SOURCE_VOICE_TRANSCRIPTION", "SOURCE_WAKEUP"}
  \cup {"RING"} \X
       {"VOICE_ASSISTANT"}
  \cup {"ULTRASONIC"} \X
       {"ULTRASONIC"}
  \cup {"VOICE_CALL"} \X
       {"SOURCE_MIC", "SOURCE_VOICE_MESSAGE", "SOURCE_VOICE_RECOGNITION",
        "SOURCE_WAKEUP", "NAVIGATION", "RING", "VOICE_ASSISTANT",
        "VOICE_CALL", "VOICE_RING"}
  \cup {"VOICE_CALL_ASSISTANT"} \X
       {"SOURCE_MIC", "SOURCE_VOICE_MESSAGE", "SOURCE_VOICE_RECOGNITION",
        "SOURCE_WAKEUP", "NAVIGATION", "RING", "VOICE_ASSISTANT",
        "VOICE_CALL_ASSISTANT", "VOICE_RING"}
  \cup {"VOICE_COMMUNICATION"} \X
       {"SOURCE_VOICE_RECOGNITION", "SOURCE_WAKEUP", "VOICE_ASSISTANT"}
  \cup {"VOICE_RING"} \X
       {"NAVIGATION", "RING", "VOICE_ASSISTANT", "VOICE_COMMUNICATION",
        "VOICE_RING"}
  \cup {ForceStop} \X Ordinary

(* action_on="incoming": the incoming stream is paused or ducked.          *)
PauseIncoming ==
       {"VOICE_CALL", "VOICE_CALL_ASSISTANT"} \X
       {"SOURCE_VOICE_COMMUNICATION", "VOICE_COMMUNICATION"}

DuckIncoming ==
       {"ACCESSIBILITY"} \X
       {"ALARM", "DTMF", "GAME", "MOVIE", "MUSIC", "SPEECH", "VOICE_CALL",
        "VOICE_CALL_ASSISTANT", "VOICE_COMMUNICATION"}
  \cup {"NAVIGATION"} \X
       {"GAME", "MOVIE", "MUSIC", "SPEECH"}
  \cup {"RING", "VOICE_RING"} \X
       {"GAME", "MOVIE", "MUSIC", "SPEECH", "SYSTEM", "VOICE_MESSAGE"}
  \cup {"VOICE_ASSISTANT"} \X
       {"ALARM", "MOVIE", "MUSIC", "SPEECH", "VOICE_MESSAGE"}
  \cup {"VOICE_CALL", "VOICE_CALL_ASSISTANT"} \X
       {"ALARM", "GAME", "MOVIE", "MUSIC", "SPEECH", "SYSTEM", "VOICE_MESSAGE"}
  \cup {"VOICE_COMMUNICATION"} \X
       {"ALARM", "GAME", "MOVIE", "MUSIC", "SPEECH", "SYSTEM",
        "VOICE_MESSAGE", "VOICE_RING"}
  \cup {"VOICE_MESSAGE"} \X
       {"NAVIGATION"}

(* action_on="existing": the stream that has the focus is stopped, paused  *)
(* or ducked.                                                              *)
StopExisting ==
       {"SOURCE_MIC", "SOURCE_VOICE_MESSAGE"} \X
       {"SOURCE_VOICE_CALL", "SOURCE_VOICE_COMMUNICATION", "VOICE_CALL",
        "VOICE_CALL_ASSISTANT"}
  \cup {"SOURCE_PLAYBACK_CAPTURE"} \X
       {"VOICE_RING"}
  \cup {"SOURCE_ULTRASONIC"} \X
       {"SOURCE_VOICE_COMMUNICATION"}
  \cup {"SOURCE_VOICE_RECOGNITION", "SOURCE_VOICE_TRANSCRIPTION"} \X
       {"SOURCE_VOICE_CALL"}
  \cup {"SOURCE_WAKEUP"} \X
       {"SOURCE_MIC", "SOURCE_ULTRASONIC", "SOURCE_VOICE_CALL",
        "SOURCE_VOICE_COMMUNICATION", "SOURCE_VOICE_MESSAGE",
        "SOURCE_VOICE_RECOGNITION", "SOURCE_VOICE_TRANSCRIPTION"}
  \cup {"ACCESSIBILITY"} \X
       {"ACCESSIBILITY"}
  \cup {"ALARM"} \X
       {"SOURCE_MIC", "SOURCE_VOICE_MESSAGE", "SOURCE_VOICE_RECOGNITION",
        "ALARM", "GAME", "MOVIE", "MUSIC", "RING", "SPEECH", "VOICE_CALL",
        "VOICE_CALL_ASSISTANT", "VOICE_COMMUNICATION", "VOICE_MESSAGE",
        "VOICE_RING"}
  \cup {"DTMF"} \X
       {"ACCESSIBILITY", "DTMF", "GAME", "MOVIE", "MUSIC", "SPEECH", "SYSTEM",
        "SYSTEM_ENFORCED", "VOICE_ASSISTANT", "VOICE_CALL",
        "VOICE_CALL_ASSISTANT", "VOICE_COMMUNICATION", "VOICE_MESSAGE"}
  \cup {"GAME"} \X
       {"GAME"}
  \cup {"MOVIE", "MUSIC", "SPEECH"} \X
       {"SOURCE_MIC", "MOVIE", "MUSIC", "SPEECH"}
  \cup {"NAVIGATION"} \X
       {"SOURCE_VOICE_RECOGNITION", "NAVIGATION", "VOICE_ASSISTANT",
        "VOICE_CALL", "VOICE_CALL_ASSISTANT", "VOICE_COMMUNICATION",
        "VOICE_RING"}
  \cup {"NOTIFICATION"} \X
       {"SOURCE_MIC", "SOURCE_VOICE_MESSAGE", "NOTIFICATION", "SYSTEM",
        "SYSTEM_ENFORCED", "VOICE_ASSISTANT", "VOICE_CALL",
        "VOICE_CALL_ASSISTANT", "VOICE_COMMUNICATION"}
  \cup {"RING"} \X
       {"VOICE_CALL", "VOICE_CALL_ASSISTANT", "VOICE_COMMUNICATION",
        "VOICE_RING"}
  \cup {"SYSTEM"} \X
       {"ALARM", "DTMF", "GAME", "MOVIE", "MUSIC", "NOTIFICATION", "RING",
        "SPEECH", "SYSTEM", "SYSTEM_ENFORCED", "VOICE_ASSISTANT",
        "VOICE_CALL", "VOICE_CALL_ASSISTANT", "VOICE_COMMUNICATION",
        "VOICE_MESSAGE", "VOICE_RING"}
  \cup {"VOICE_ASSISTANT"} \X
       {"GAME", "NAVIGATION", "RING", "VOICE_ASSISTANT", "VOICE_CALL",
        "VOICE_CALL_ASSISTANT", "VOICE_COMMUNICATION", "VOICE_RING"}
  \cup {"VOICE_MESSAGE"} \X
       {"SOURCE_MIC", "SOURCE_VOICE_MESSAGE", "SOURCE_VOICE_RECOGNITION",
        "ALARM", "MOVIE", "MUSIC", "RING", "SPEECH", "VOICE_CALL",
        "VOICE_CALL_ASSISTANT", "VOICE_COMMUNICATION", "VOICE_MESSAGE",
        "VOICE_RING"}
  \cup {"VOICE_RING"} \X
       {"VOICE_CALL", "VOICE_CALL_ASSISTANT"}
  \cup Ordinary \X {ForceStop}

PauseExisting ==
       {"SOURCE_VOICE_COMMUNICATION"} \X
       {"SOURCE_VOICE_COMMUNICATION", "VOICE_CALL", "VOICE_CALL_ASSISTANT"}
  \cup {"SOURCE_VOICE_RECOGNITION"} \X
       {"SOURCE_MIC", "SOURCE_VOICE_COMMUNICATION", "SOURCE_VOICE_MESSAGE",
        "VOICE_COMMUNICATION"}
  \cup {"GAME"} \X
       {"ALARM", "RING", "VOICE_CALL", "VOICE_CALL_ASSISTANT",
        "VOICE_COMMUNICATION", "VOICE_MESSAGE", "VOICE_RING"}
  \cup {"MOVIE", "MUSIC", "SPEECH"} \X
       {"SOURCE_VOICE_MESSAGE", "SOURCE_VOICE_RECOGNITION", "ALARM", "RING",
        "VOICE_CALL", "VOICE_CALL_ASSISTANT", "VOICE_COMMUNICATION",
        "VOICE_MESSAGE", "VOICE_RING"}
  \cup {"RING", "VOICE_RING"} \X
       {"SOURCE_VOICE_MESSAGE"}
  \cup {"VOICE_COMMUNICATION"} \X
       {"VOICE_CALL", "VOICE_CALL_ASSISTANT", "VOICE_COMMUNICATION"}

DuckExisting ==
       {"ACCESSIBILITY"} \X
       {"RING", "VOICE_RING"}
  \cup {"ALARM"} \X
       {"VOICE_ASSISTANT"}
  \cup {"GAME", "MOVIE", "MUSIC", "SPEECH"} \X
       {"ACCESSIBILITY", "NAVIGATION", "NOTIFICATION", "VOICE_ASSISTANT"}
  \cup {"NAVIGATION"} \X
       {"VOICE_MESSAGE"}
  \cup {"RING", "VOICE_CALL", "VOICE_CALL_ASSISTANT", "VOICE_COMMUNICATION",
        "VOICE_RING"} \X
       {"ACCESSIBILITY"}
  \cup {"VOICE_MESSAGE"} \X
       {"NOTIFICATION", "VOICE_ASSISTANT"}

(* The entry the parser makes of a pair: on whom it acts, what it does.    *)
FocusEntry(pair) ==
  [actionOn |-> IF pair \in StopExisting \cup PauseExisting \cup DuckExisting
                THEN "CURRENT" ELSE "INCOMING",
   hint |-> CASE pair \in Denied \cup StopExisting -> "STOP"
              [] pair \in PauseExisting \cup PauseIncoming -> "PAUSE"
              [] pair \in DuckExisting \cup DuckIncoming -> "DUCK"
              [] OTHER -> "NONE",
   isReject |-> pair \in Denied]

focusCfgMap == [pair \in (FocusTypes \X FocusTypes) \ Missing |-> FocusEntry(pair)]
=============================================================================
