--------------------------- MODULE DebugProtocol ---------------------------
(***************************************************************************)
(* The debugger: DebugShared and send_command (core/src/debugger.rs), the  *)
(* emulator's side of it (debug_check, do_pause, service_debug_commands in *)
(* core/src/computer.rs, the watchpoint of Bus::memory_write_u8) and the   *)
(* tools of the MCP server, which serves each HTTP request on a thread of  *)
(* its own (debugger/src/server.rs).                                       *)
(*                                                                         *)
(* An action is one access to an atomic flag, or one critical section of a *)
(* mutex: no two mutexes are ever held together.  Only the snapshot mutex  *)
(* needs its holder as state, for tool_pause tests `paused' and goes to    *)
(* sleep on cond_paused while holding it.  Nothing waits on cond_command.  *)
(* Registers and memory are reduced to CS:IP; the one watched address is   *)
(* written by the instructions at Writers.                                 *)
(***************************************************************************)
EXTENDS Naturals

CONSTANTS
  Clients,   \* threads of the MCP server
  Addrs,     \* values of CS:IP
  Writers,   \* the instructions that write the watched address
  Tools,     \* the tools the clients use: a subset of Tool
  MaxSteps,  \* bound: instructions one Step command asks for
  NoClient, NoAddr

Kinds == {"continue", "step", "read", "key"}
Tool  == Kinds \cup {"pause", "breakpoint", "watchpoint"}

ASSUME DebugAssumption ==
  /\ NoClient \notin Clients
  /\ NoAddr \notin Addrs
  /\ Writers \subseteq Addrs
  /\ Tools \subseteq Tool
  /\ MaxSteps \in Nat

\* DebugCommand, with the sender for the sake of properties.
Command  == [kind : Kinds, n : 0..MaxSteps, from : Clients]
\* DebugResponse, and the sender of the command it answers.
Response == [kind : {"ok", "memory"}, to : Clients]
None     == [kind |-> "none"]

VARIABLES
  emu,              \* where the emulator thread is
  ip,               \* CS:IP
  command,          \* the command being served
  left,             \* instructions left of a Step command
  client,           \* where each client thread is
  request,          \* the command each client sends
  breakpoints, watching, watchpointHit, pauseRequested, paused, snapshot,
  pendingCommand, pendingResponse,  \* the fields of DebugShared
  snapshotHolder,   \* the client that holds the snapshot mutex, or NoClient
  lastExecuted,     \* history: the instruction executed last
  mustStop,         \* history: it wrote the watched address, and no pause since
  answer            \* history: the last response each client got

shared  == <<breakpoints, watching, watchpointHit, pauseRequested, paused,
             snapshot, pendingCommand, pendingResponse, snapshotHolder>>
history == <<lastExecuted, mustStop, answer>>
vars    == <<emu, ip, command, left, client, request, shared, history>>

EmuLocs == {"checkPaused", "checkRequest", "checkBreakpoint", "execute",
            "pauseSnapshot", "pause", "notifyPaused",
            "serve", "continue", "resume", "step", "stepped", "stepSnapshot",
            "respond", "notifyResponse"}

ClientLocs == {"idle", "request", "lock", "test", "sleep", "asleep",
               "put", "take", "await"}

\* The type of every variable.
TypeOK ==
  /\ emu \in EmuLocs
  /\ ip \in Addrs
  /\ command \in Command \cup {None}
  /\ left \in 0..MaxSteps
  /\ client \in [Clients -> ClientLocs]
  /\ request \in [Clients -> Command \cup {None}]
  /\ breakpoints \subseteq Addrs
  /\ watching \in BOOLEAN
  /\ watchpointHit \in Addrs \cup {NoAddr}
  /\ pauseRequested \in BOOLEAN
  /\ paused \in BOOLEAN
  /\ snapshot \in Addrs \cup {NoAddr}
  /\ pendingCommand \in Command \cup {None}
  /\ pendingResponse \in Response \cup {None}
  /\ snapshotHolder \in Clients \cup {NoClient}
  /\ lastExecuted \in Addrs \cup {NoAddr}
  /\ mustStop \in BOOLEAN
  /\ answer \in [Clients -> Response \cup {None}]

Init ==
  /\ emu = "checkPaused"
  /\ ip \in Addrs
  /\ command = None /\ left = 0
  /\ client = [c \in Clients |-> "idle"]
  /\ request = [c \in Clients |-> None]
  /\ breakpoints = {} /\ watching = FALSE /\ watchpointHit = NoAddr
  /\ pauseRequested = FALSE /\ paused = FALSE /\ snapshot = NoAddr
  /\ pendingCommand = None /\ pendingResponse = None
  /\ snapshotHolder = NoClient
  /\ lastExecuted = NoAddr /\ mustStop = FALSE
  /\ answer = [c \in Clients |-> None]

-----------------------------------------------------------------------------
(* The emulator thread. *)

At(loc) == emu = loc

\* The variables only clients change, and those few emulator steps change.
ClientSide == <<request, breakpoints, watching, snapshotHolder, answer>>

\* Cpu::step: the instruction at ip may write the watched address, which
\* records the hit (after which the given value of watchpointHit stands
\* otherwise) and requests a pause; the next one may be anywhere.
CpuStep(hit) ==
  LET fires == watching /\ ip \in Writers
  IN  /\ ip' \in Addrs
      /\ watchpointHit' = IF fires THEN ip ELSE hit
      /\ pauseRequested' = (pauseRequested \/ fires)
      /\ lastExecuted' = ip
      /\ mustStop' = fires

\* notify_all on cond_paused: every sleeper goes on to take its mutex again.
Notified ==
  [c \in Clients |-> CASE client[c] = "asleep" -> "lock"
                       [] client[c] = "await" -> "take"
                       [] OTHER -> client[c]]

\* debug_check: is the emulator paused?
EmuCheckPaused ==
  /\ At("checkPaused")
  /\ emu' = IF paused THEN "serve" ELSE "checkRequest"
  /\ UNCHANGED <<ip, command, left, client, request, shared, history>>

\* Is a pause requested?  The request is withdrawn when it is.
EmuCheckRequest ==
  /\ At("checkRequest")
  /\ emu' = IF pauseRequested THEN "pauseSnapshot" ELSE "checkBreakpoint"
  /\ pauseRequested' = FALSE
  /\ UNCHANGED <<ip, command, left, client, paused, watchpointHit, snapshot,
                 pendingCommand, pendingResponse, lastExecuted, mustStop, ClientSide>>

\* check_breakpoint
EmuCheckBreakpoint ==
  /\ At("checkBreakpoint")
  /\ emu' = IF ip \in breakpoints THEN "pauseSnapshot" ELSE "execute"
  /\ UNCHANGED <<ip, command, left, client, request, shared, history>>

\* Computer::step with no reason to stop.
EmuExecutes ==
  /\ At("execute")
  /\ emu' = "checkPaused"
  /\ CpuStep(watchpointHit)
  /\ UNCHANGED <<command, left, client, paused, snapshot, pendingCommand,
                 pendingResponse, ClientSide>>

\* do_pause: the snapshot is stored under its mutex, `paused' is stored
\* without, and the sleepers are notified.
EmuPauseSnapshot ==
  /\ At("pauseSnapshot")
  /\ snapshotHolder = NoClient
  /\ emu' = "pause"
  /\ snapshot' = ip
  /\ mustStop' = FALSE
  /\ UNCHANGED <<ip, command, left, client, paused, watchpointHit, pauseRequested,
                 pendingCommand, pendingResponse, lastExecuted, ClientSide>>

EmuPauses ==
  /\ At("pause")
  /\ emu' = "notifyPaused"
  /\ paused' = TRUE
  /\ UNCHANGED <<ip, command, left, client, watchpointHit, pauseRequested,
                 snapshot, pendingCommand, pendingResponse, lastExecuted,
                 mustStop, ClientSide>>

EmuNotifiesPaused ==
  /\ At("notifyPaused")
  /\ emu' = "serve"
  /\ client' = Notified
  /\ UNCHANGED <<ip, command, left, request, shared, history>>

\* Mutant: Step(0) enters the loop.
EmuServesZero ==
  /\ At("serve")
  /\ emu' = CASE pendingCommand = None -> "checkPaused"
              [] pendingCommand.kind \in {"continue", "step"} -> pendingCommand.kind
              [] OTHER -> "respond"
  /\ command' = pendingCommand
  /\ left' = IF pendingCommand = None THEN 0 ELSE pendingCommand.n
  /\ pendingCommand' = None
  /\ UNCHANGED <<ip, client, paused, watchpointHit, pauseRequested, snapshot,
                 pendingResponse, lastExecuted, mustStop, ClientSide>>

\* service_debug_commands: take the command, or return to the caller of
\* Computer::step when there is none.
EmuServes ==
  /\ At("serve")
  /\ emu' = CASE pendingCommand = None -> "checkPaused"
              [] pendingCommand.kind = "continue" -> "continue"
              [] pendingCommand.kind = "step" ->
                   IF pendingCommand.n = 0 THEN "stepSnapshot" ELSE "step"
              [] OTHER -> "respond"
  /\ command' = pendingCommand
  /\ left' = IF pendingCommand = None THEN 0 ELSE pendingCommand.n
  /\ pendingCommand' = None
  /\ UNCHANGED <<ip, client, paused, watchpointHit, pauseRequested, snapshot,
                 pendingResponse, lastExecuted, mustStop, ClientSide>>

\* Continue: forget the hit, step over the breakpoint, and resume.
EmuContinues ==
  /\ At("continue")
  /\ emu' = "resume"
  /\ CpuStep(NoAddr)
  /\ UNCHANGED <<command, left, client, paused, snapshot, pendingCommand,
                 pendingResponse, ClientSide>>

EmuResumes ==
  /\ At("resume")
  /\ emu' = "respond"
  /\ paused' = FALSE
  /\ UNCHANGED <<ip, command, left, client, watchpointHit, pauseRequested,
                 snapshot, pendingCommand, pendingResponse, lastExecuted,
                 mustStop, ClientSide>>

\* Step(n): one instruction, then look for a reason to stop early.
EmuSteps ==
  /\ At("step")
  /\ emu' = "stepped"
  /\ left' = left - 1
  /\ CpuStep(watchpointHit)
  /\ UNCHANGED <<command, client, paused, snapshot, pendingCommand,
                 pendingResponse, ClientSide>>

\* Mutant: a Step command runs all of its instructions.
EmuStepsOn ==
  /\ At("stepped")
  /\ emu' = IF left = 0 THEN "stepSnapshot" ELSE "step"
  /\ UNCHANGED <<ip, command, left, client, request, shared, history>>

EmuStepped ==
  /\ At("stepped")
  /\ LET stop == pauseRequested \/ ip \in breakpoints
     IN  /\ emu' = IF stop \/ left = 0 THEN "stepSnapshot" ELSE "step"
         /\ pauseRequested' = (pauseRequested /\ ~stop)
  /\ UNCHANGED <<ip, command, left, client, paused, watchpointHit, snapshot,
                 pendingCommand, pendingResponse, lastExecuted, mustStop, ClientSide>>

\* Mutant: the snapshot is not taken again after a Step.
EmuStepKeepsSnapshot ==
  /\ At("stepSnapshot")
  /\ emu' = "respond"
  /\ mustStop' = FALSE
  /\ UNCHANGED <<ip, command, left, client, paused, watchpointHit, pauseRequested,
                 snapshot, pendingCommand, pendingResponse, lastExecuted, ClientSide>>

EmuStepSnapshot ==
  /\ At("stepSnapshot")
  /\ snapshotHolder = NoClient
  /\ emu' = "respond"
  /\ snapshot' = ip
  /\ mustStop' = FALSE
  /\ UNCHANGED <<ip, command, left, client, paused, watchpointHit, pauseRequested,
                 pendingCommand, pendingResponse, lastExecuted, ClientSide>>

\* The response is stored, and the sleepers are notified.
EmuResponds ==
  /\ At("respond")
  /\ emu' = "notifyResponse"
  /\ pendingResponse' = [kind |-> IF command.kind = "read" THEN "memory" ELSE "ok",
                         to |-> command.from]
  /\ UNCHANGED <<ip, command, left, client, paused, watchpointHit, pauseRequested,
                 snapshot, pendingCommand, lastExecuted, mustStop, ClientSide>>

\* Mutant: nobody is notified of a response.
EmuRespondsSilently ==
  /\ At("notifyResponse")
  /\ emu' = IF command.kind = "continue" THEN "checkPaused" ELSE "serve"
  /\ UNCHANGED <<ip, command, left, client, request, shared, history>>

EmuNotifiesResponse ==
  /\ At("notifyResponse")
  /\ emu' = IF command.kind = "continue" THEN "checkPaused" ELSE "serve"
  /\ client' = Notified
  /\ UNCHANGED <<ip, command, left, request, shared, history>>

Emulator ==
  \/ EmuCheckPaused \/ EmuCheckRequest \/ EmuCheckBreakpoint \/ EmuExecutes
  \/ EmuPauseSnapshot \/ EmuPauses \/ EmuNotifiesPaused
  \/ EmuServes \/ EmuContinues \/ EmuResumes
  \/ EmuSteps \/ EmuStepped \/ EmuStepSnapshot
  \/ EmuResponds \/ EmuNotifiesResponse

-----------------------------------------------------------------------------
(* The clients. *)

EmuSide == <<emu, ip, command, left, lastExecuted, mustStop, paused, snapshot,
             watchpointHit>>

Goes(c, from, to) == client[c] = from /\ client' = [client EXCEPT ![c] = to]

\* tool_pause, while the emulator runs: request the pause, take the mutex of
\* the snapshot, and sleep on cond_paused as long as `paused' is not set.
PauseCall(c) ==
  /\ "pause" \in Tools
  /\ ~paused
  /\ Goes(c, "idle", "request")
  /\ UNCHANGED <<EmuSide, request, breakpoints, watching, pauseRequested,
                 pendingCommand, pendingResponse, snapshotHolder, answer>>

PauseRequest(c) ==
  /\ Goes(c, "request", "lock")
  /\ pauseRequested' = TRUE
  /\ UNCHANGED <<EmuSide, request, breakpoints, watching, pendingCommand,
                 pendingResponse, snapshotHolder, answer>>

PauseLock(c) ==
  /\ snapshotHolder = NoClient
  /\ Goes(c, "lock", "test")
  /\ snapshotHolder' = c
  /\ UNCHANGED <<EmuSide, request, breakpoints, watching, pauseRequested,
                 pendingCommand, pendingResponse, answer>>

PauseTest(c) ==
  /\ \/ paused  /\ Goes(c, "test", "idle") /\ snapshotHolder' = NoClient
     \/ ~paused /\ Goes(c, "test", "sleep") /\ UNCHANGED snapshotHolder
  /\ UNCHANGED <<EmuSide, request, breakpoints, watching, pauseRequested,
                 pendingCommand, pendingResponse, answer>>

PauseSleep(c) ==
  /\ Goes(c, "sleep", "asleep")
  /\ snapshotHolder' = NoClient
  /\ UNCHANGED <<EmuSide, request, breakpoints, watching, pauseRequested,
                 pendingCommand, pendingResponse, answer>>

\* A tool that sends a command, called while the emulator is paused.
SendCall(c) ==
  /\ paused
  /\ Goes(c, "idle", "put")
  /\ \E kind \in Tools \cap Kinds :
       \E n \in IF kind = "step" THEN 0..MaxSteps ELSE {0} :
         request' = [request EXCEPT ![c] = [kind |-> kind, n |-> n, from |-> c]]
  /\ UNCHANGED <<EmuSide, breakpoints, watching, pauseRequested,
                 pendingCommand, pendingResponse, snapshotHolder, answer>>

\* send_command: place the command, whatever was there, and wait for a
\* response under its mutex.
SendPut(c) ==
  /\ Goes(c, "put", "take")
  /\ pendingCommand' = request[c]
  /\ UNCHANGED <<EmuSide, request, breakpoints, watching, pauseRequested,
                 pendingResponse, snapshotHolder, answer>>

\* Mutant: the response is read but left in place.
SendTakeKeeps(c) ==
  /\ \/ /\ pendingResponse # None
        /\ Goes(c, "take", "idle")
        /\ answer' = [answer EXCEPT ![c] = pendingResponse]
     \/ /\ pendingResponse = None
        /\ Goes(c, "take", "await")
        /\ UNCHANGED answer
  /\ UNCHANGED <<EmuSide, request, breakpoints, watching, pauseRequested,
                 pendingCommand, pendingResponse, snapshotHolder>>

SendTake(c) ==
  /\ \/ /\ pendingResponse # None
        /\ Goes(c, "take", "idle")
        /\ pendingResponse' = None
        /\ answer' = [answer EXCEPT ![c] = pendingResponse]
     \/ /\ pendingResponse = None
        /\ Goes(c, "take", "await")
        /\ UNCHANGED <<pendingResponse, answer>>
  /\ UNCHANGED <<EmuSide, request, breakpoints, watching, pauseRequested,
                 pendingCommand, snapshotHolder>>

\* The tools that set and clear breakpoints and watchpoints.
SetBreakpoint(c) ==
  /\ "breakpoint" \in Tools /\ client[c] = "idle"
  /\ \E a \in Addrs : breakpoints' \in {breakpoints \cup {a}, breakpoints \ {a}}
  /\ UNCHANGED <<EmuSide, client, request, watching, pauseRequested,
                 pendingCommand, pendingResponse, snapshotHolder, answer>>

SetWatchpoint(c) ==
  /\ "watchpoint" \in Tools /\ client[c] = "idle"
  /\ watching' = ~watching
  /\ UNCHANGED <<EmuSide, client, request, breakpoints, pauseRequested,
                 pendingCommand, pendingResponse, snapshotHolder, answer>>

\* A condition variable may wake a thread nobody has notified.
SpuriousWakeup(c) ==
  /\ Goes(c, "asleep", "lock") \/ Goes(c, "await", "take")
  /\ UNCHANGED <<EmuSide, request, breakpoints, watching, pauseRequested,
                 pendingCommand, pendingResponse, snapshotHolder, answer>>

\* A call in progress goes on.
ClientGoesOn(c) ==
  \/ PauseRequest(c) \/ PauseLock(c) \/ PauseTest(c) \/ PauseSleep(c)
  \/ SendPut(c) \/ SendTake(c)

Client(c) ==
  \/ PauseCall(c) \/ SendCall(c) \/ SetBreakpoint(c) \/ SetWatchpoint(c)
  \/ ClientGoesOn(c) \/ SpuriousWakeup(c)

Next == Emulator \/ \E c \in Clients : Client(c)

Spec == Init /\ [][Next]_vars

\* The front end calls Computer::step again and again, and the operating system
\* runs the threads; nobody has to start a call, and no wakeup comes for free.
Fairness ==
  /\ WF_vars(Emulator)
  /\ \A c \in Clients : WF_vars(ClientGoesOn(c)) /\ SF_vars(PauseLock(c))

FairSpec == Spec /\ Fairness

-----------------------------------------------------------------------------
(* Properties. *)

\* The emulator waits for a command.
Stopped == paused /\ emu \in {"checkPaused", "serve", "notifyPaused"}

\* What a paused emulator reports to the tools is where it stands: after a
\* pause and after each Step the snapshot is taken again, also when the Step
\* ended early.
SnapshotCurrent == Stopped => snapshot = ip

\* The instruction that writes a watched address is the last one executed
\* before the emulator stops: neither the rest of a Step command, nor a
\* Continue that has just stepped over it, runs on.
WatchpointStops ==
  [][emu' # emu /\ emu \in {"execute", "continue", "step"} => ~mustStop]_vars

\* A command is executed at most once: none waits, is served or is answered
\* whose sender is not waiting for the answer.
CommandServedOnce ==
  \A c \in Clients :
    (\/ pendingCommand # None /\ pendingCommand.from = c
     \/ emu \in {"continue", "resume", "step", "stepped", "stepSnapshot", "respond"}
          /\ command.from = c
     \/ pendingResponse # None /\ pendingResponse.to = c)
      => client[c] \in {"take", "await"}

\* Every command of a lone client is answered: between the test for a response
\* and the sleep no notification can fall, for the response is stored under
\* the mutex the client holds.
CommandAnswered ==
  \A c \in Clients : client[c] \in {"take", "await"} ~> client[c] = "idle"

\* tool_pause returns once the emulator has paused.
PauseReturns == \A c \in Clients : client[c] = "lock" ~> client[c] = "idle"
=============================================================================
