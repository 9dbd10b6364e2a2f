---------------------------- MODULE WirelessDebug ----------------------------
(***************************************************************************)
(* Commands by ESP-NOW to a device of the mesh,                            *)
(* mesh_lite/src/esp_mesh_lite_wireless_debug.c: the Wi-Fi task copies a   *)
(* message and queues it, a task of its own runs it as a console command   *)
(* and sends the answer back. Buffers, the mac and the channel last named  *)
(* and the console outlive the single command, some of them the task too.  *)
(***************************************************************************)
EXTENDS Naturals, SequencesExt

(* A definition whose comment begins with "Defect:" is a variant of the    *)
(* definition after it, the way a mistake in the code would have it. The   *)
(* specification does not use it: a property's run has to fail with it.    *)

CONSTANTS
  Copies,      \* the blocks that copies of messages are made in
  QueueSize    \* WIRELESS_DEBUG_QUEUE_SIZE

ASSUME QueueSizeAssumption == QueueSize \in Nat \ {0}

Nobody == "nobody"
NoCopy == [copy |-> Nobody]

\* A mac on the command line is this device's, another's, not a mac, or missing.
Macs == {Nobody, "own", "other", "garbled"}
Commands ==
  [kind : {"discover", "error"}, mac : Macs] \cup
  [kind : {"core_log"}, mac : {Nobody, "other"}, level : {"on", "off", "bad"}] \cup
  [kind : {"reboot", "unknown", "response"}]
Messages == {[copy |-> c, what |-> w] : c \in Copies, w \in Commands}

VARIABLES
  handle,      \* mesh_lite_wireless_debug_task_handle # NULL
  task,        \* where the task is: "none", "created", "wait", "run", "delay",
               \* "answer"
  ready,       \* mesh_lite_wireless_debug_queue_handle # NULL
  console,     \* is the console initialized?
  buffers,     \* output_buffer and the others are allocated
  registered,  \* the callbacks are registered for ESP-NOW
  inbox,       \* the queue
  entering,    \* the copy the Wi-Fi task is about to queue
  current,     \* the message the task works on
  allocated,   \* the copies that have been allocated and not freed
  lostCopies,  \* history: those that a deinitialization left behind
  output,      \* output_buffer: Nobody when empty, or the copy whose command wrote it
  named,       \* last_dst_mac: Nobody for zeros, "own", "other"
  hook,        \* is the core's log sent by wireless_debug_log_writev?
  callback,    \* cb_list.wifi_error_cb # NULL, and the others
  ending       \* how far the application is in deinit: 0 for not at all

taskVars == <<handle, task, ready, console, buffers>>
copyVars == <<inbox, entering, current, allocated, lostCopies>>
commandVars == <<output, named, hook, callback>>
debugVars == <<taskVars, registered, copyVars, commandVars, ending>>

DebugInit ==
  /\ handle = FALSE /\ task = "none" /\ ready = FALSE /\ console = FALSE
  /\ buffers = FALSE /\ registered = FALSE
  /\ inbox = <<>> /\ entering = NoCopy /\ current = NoCopy
  /\ allocated = {} /\ lostCopies = {}
  /\ output = Nobody /\ named = Nobody /\ hook = FALSE /\ callback = FALSE
  /\ ending = 0

\* esp_restart, or the restart after abort.
Restart ==
  /\ handle' = FALSE /\ task' = "none" /\ ready' = FALSE /\ console' = FALSE
  /\ buffers' = FALSE /\ registered' = FALSE
  /\ inbox' = <<>> /\ entering' = NoCopy /\ current' = NoCopy
  /\ allocated' = {} /\ lostCopies' = {}
  /\ output' = Nobody /\ named' = Nobody /\ hook' = FALSE /\ callback' = FALSE
  /\ ending' = 0
-----------------------------------------------------------------------------
(* The application.                                                        *)

\* esp_mesh_lite_wireless_debug_init
InitDebug ==
  /\ ~handle /\ ending = 0
  /\ buffers' = TRUE /\ output' = Nobody /\ named' = Nobody
  /\ registered' = TRUE
  /\ handle' = TRUE /\ task' = "created"
  /\ UNCHANGED <<ready, console, copyVars, hook, callback, ending>>

\* esp_mesh_lite_wireless_debug_deinit: the task is deleted wherever it is, and
\* what it holds is lost. So is the queue, that is not deleted.
DeleteTask ==
  /\ handle /\ ending = 0
  /\ task' = "none" /\ handle' = FALSE
  /\ lostCopies' = lostCopies \cup ({current} \ {NoCopy})
  /\ current' = NoCopy
  /\ ending' = 1
  /\ UNCHANGED <<ready, console, buffers, registered, inbox, entering, allocated,
                 commandVars>>

FreeBuffers ==
  /\ ending = 1
  /\ buffers' = FALSE /\ output' = Nobody
  /\ ending' = 2
  /\ UNCHANGED <<handle, task, ready, console, registered, copyVars, named, hook,
                 callback>>

UnregisterDebug ==
  /\ ending = 2
  /\ registered' = FALSE
  /\ ending' = 0
  /\ UNCHANGED <<taskVars, copyVars, commandVars>>

\* esp_mesh_lite_wireless_debug_cb_register and _unregister
SetCallbacks ==
  /\ callback' = ~callback
  /\ UNCHANGED <<taskVars, registered, copyVars, output, named, hook, ending>>

-----------------------------------------------------------------------------
(* wireless_debug_process_cb, in the Wi-Fi task. (A message of another     *)
(* version or another mesh, or one without memory, is dropped at once.)    *)

Enter(m) ==
  /\ registered /\ handle
  /\ entering = NoCopy
  /\ \A a \in allocated : a.copy # m.copy
  /\ entering' = m
  /\ allocated' = allocated \cup {m}
  /\ UNCHANGED <<taskVars, registered, inbox, current, lostCopies, commandVars, ending>>

Enqueue ==
  /\ entering # NoCopy
  /\ ready /\ Len(inbox) < QueueSize
  /\ inbox' = Append(inbox, entering)
  /\ entering' = NoCopy
  /\ UNCHANGED <<taskVars, registered, current, allocated, lostCopies, commandVars,
                 ending>>

\* Defect: the copy is not freed.
EnqueueFailsKeeps ==
  /\ entering # NoCopy
  /\ ~ready \/ Len(inbox) = QueueSize
  /\ entering' = NoCopy
  /\ UNCHANGED <<taskVars, registered, inbox, current, allocated, lostCopies,
                 commandVars, ending>>

\* The task has not made its queue yet, or it is full.
EnqueueFails ==
  /\ entering # NoCopy
  /\ ~ready \/ Len(inbox) = QueueSize
  /\ allocated' = allocated \ {entering}
  /\ entering' = NoCopy
  /\ UNCHANGED <<taskVars, registered, inbox, current, lostCopies, commandVars, ending>>

-----------------------------------------------------------------------------
(* The task.                                                               *)

\* A second queue takes the place of the first, and a second esp_console_init
\* is an error that ESP_ERROR_CHECK does not survive.
TaskStarts ==
  /\ task = "created"
  /\ IF console
       THEN Restart
       ELSE /\ ready' = TRUE /\ inbox' = <<>>
            /\ lostCopies' = lostCopies \cup Range(inbox)
            /\ console' = TRUE /\ task' = "wait"
            /\ UNCHANGED <<handle, buffers, registered, entering, current, allocated,
                           commandVars, ending>>

\* Defect: output_buffer still has the last answer.
TakeKeeps ==
  /\ task = "wait" /\ inbox # <<>>
  /\ current' = Head(inbox) /\ inbox' = Tail(inbox)
  /\ task' = "run"
  /\ UNCHANGED <<handle, ready, console, buffers, registered, entering, allocated,
                 lostCopies, commandVars, ending>>

\* output_buffer is cleared, but not for a response.
Take ==
  /\ task = "wait" /\ inbox # <<>>
  /\ current' = Head(inbox) /\ inbox' = Tail(inbox)
  /\ output' = IF Head(inbox).what.kind = "response" THEN output ELSE Nobody
  /\ task' = "run"
  /\ UNCHANGED <<handle, ready, console, buffers, registered, entering, allocated,
                 lostCopies, named, hook, callback, ending>>

Runs(kinds) == task = "run" /\ current.what.kind \in kinds

Done ==
  /\ allocated' = allocated \ {current}
  /\ current' = NoCopy
  /\ task' = "wait"
  /\ UNCHANGED <<handle, ready, console, buffers, registered, inbox, entering,
                 lostCopies, ending>>

\* A response is given to recv_resp_data_cb, a command nobody knows is dropped.
RunNothing ==
  /\ Runs({"response", "unknown"})
  /\ Done
  /\ UNCHANGED commandVars

Reboot == Runs({"reboot"}) /\ Restart

\* Arguments that arg_parse refuses. (Whether it refuses a command without a
\* mac is up to it: the code is prepared for both.)
RefuseArguments ==
  /\ Runs({"discover", "error", "core_log"})
  /\ task' = "answer"
  /\ UNCHANGED <<handle, ready, console, buffers, registered, copyVars, commandVars,
                 ending>>

\* str_2_mac, whose result nobody looks at: what is not a mac overwrites the
\* last one up to the character that is wrong.
Parsed(mac) ==
  CASE mac = Nobody -> {named} [] mac = "garbled" -> {named, "own", "other"}
    [] OTHER -> {mac}

\* Only the device that is named answers; it may have to wait first. A command
\* that names none is for the one named last.
RunDiscover ==
  /\ Runs({"discover"})
  /\ named' \in Parsed(current.what.mac)
  /\ output' = IF named' = "own" THEN current.copy ELSE output
  /\ task' = "answer"
  /\ UNCHANGED <<handle, ready, console, buffers, registered, copyVars, hook, callback,
                 ending>>

RunError ==
  /\ Runs({"error"})
  /\ named' \in Parsed(current.what.mac)
  /\ task' = IF named' = "own" THEN "delay" ELSE "answer"
  /\ UNCHANGED <<handle, ready, console, buffers, registered, copyVars, output, hook,
                 callback, ending>>

\* The callback may have come or gone during the delay.
TellError ==
  /\ task = "delay"
  /\ output' = IF callback THEN current.copy ELSE output
  /\ task' = "answer"
  /\ UNCHANGED <<handle, ready, console, buffers, registered, copyVars, named, hook,
                 callback, ending>>

\* wireless_debug_cmd_core_log answers whomever it names.
RunCoreLog ==
  /\ Runs({"core_log"})
  /\ named' \in Parsed(current.what.mac)
  /\ IF current.what.level = "bad"
       THEN UNCHANGED <<output, hook>>
       ELSE output' = current.copy /\ hook' = (current.what.level = "on")
  /\ task' = "answer"
  /\ UNCHANGED <<handle, ready, console, buffers, registered, copyVars, callback,
                 ending>>

\* Sent, or not for want of memory or of a peer, and the copy is freed.
SendAnswer ==
  /\ task = "answer"
  /\ Done
  /\ UNCHANGED commandVars

-----------------------------------------------------------------------------
Application ==
  InitDebug \/ DeleteTask \/ FreeBuffers \/ UnregisterDebug \/ SetCallbacks
WifiTask == (\E m \in Messages : Enter(m)) \/ Enqueue \/ EnqueueFails
DebugTask ==
  \/ TaskStarts \/ Take
  \/ RunNothing \/ Reboot \/ RefuseArguments
  \/ RunDiscover \/ RunError \/ TellError \/ RunCoreLog
  \/ SendAnswer

DebugNext == Application \/ WifiTask \/ DebugTask

DebugSpec == DebugInit /\ [][DebugNext]_debugVars

-----------------------------------------------------------------------------
DebugTypeOK ==
  /\ {handle, ready, console, buffers, registered, hook, callback} \subseteq BOOLEAN
  /\ task \in {"none", "created", "wait", "run", "delay", "answer"}
  /\ inbox \in Seq(Messages) /\ Len(inbox) <= QueueSize
  /\ {entering, current} \subseteq Messages \cup {NoCopy}
  /\ allocated \subseteq Messages /\ lostCopies \subseteq Messages
  /\ output \in Copies \cup {Nobody} /\ named \in {Nobody, "own", "other"}
  /\ ending \in 0..2

\* What is sent as the answer to a command was written by that command, never
\* by one before it that shares the buffer; and only the device that is named
\* last answers, except that all do where the log is turned on or off.
AnswerIsCurrent ==
  task = "answer" /\ output # Nobody =>
    /\ output = current.copy
    /\ current.what.kind # "core_log" => named = "own"

\* Each copy of a message is in one place, the Wi-Fi task's hands, the queue or
\* the task's hands, and nowhere once it is freed; only a deinitialization,
\* which deletes the task wherever it is, leaves some behind. The task never
\* runs without its buffers.
CopiesAreHeld ==
  LET held == {entering, current} \ {NoCopy}
  IN  /\ allocated = held \cup Range(inbox) \cup lostCopies
      /\ IsInjective(inbox)
      /\ held \cap Range(inbox) = {} /\ lostCopies \cap (held \cup Range(inbox)) = {}
      /\ entering # NoCopy => entering # current
      /\ task # "none" => buffers
=============================================================================
