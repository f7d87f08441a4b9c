------------------------ MODULE DebugProtocol_proofs ------------------------
(***************************************************************************)
(* For any set of clients and any program: what the paused emulator        *)
(* reports is where it stands, and a watchpoint stops it.  Both rest on    *)
(* what the emulator thread knows at each of its steps; that the clients   *)
(* cannot disturb it is most of the proof.                                 *)
(***************************************************************************)
EXTENDS DebugProtocol, TLAPS

Serving == {"notifyPaused", "serve", "continue", "resume", "step", "stepped",
            "stepSnapshot"}
Answering == {"respond", "notifyResponse"}

\* The flag agrees with where the emulator is.
FlagInv ==
  /\ emu \in {"checkRequest", "checkBreakpoint", "execute", "pauseSnapshot", "pause"}
       => ~paused
  /\ emu \in Serving => paused
  /\ emu \in Answering => paused = (command.kind # "continue")

\* The command being served is of the kind the emulator is serving.
CommandInv ==
  /\ emu \in {"continue", "resume"} \cup Answering \cup {"step", "stepped", "stepSnapshot"}
       => command \in Command
  /\ emu \in {"continue", "resume"} => command.kind = "continue"
  /\ emu \in {"step", "stepped", "stepSnapshot"} => command.kind = "step"
  /\ emu = "step" => left > 0

\* From the snapshot on, ip stays as it is until the next command moves it.
SnapshotInv ==
  /\ emu \in {"pause", "notifyPaused", "serve"} => snapshot = ip
  /\ emu \in Answering /\ paused => snapshot = ip
  /\ emu = "checkPaused" /\ paused => snapshot = ip

\* An emulator that must stop is on its way to a snapshot: it has taken the
\* request, or the request stands and no step that executes comes first.
StopInv ==
  mustStop =>
    \/ emu \in {"pauseSnapshot", "stepSnapshot"}
    \/ pauseRequested /\ emu \in {"checkRequest", "resume", "stepped"}
    \/ pauseRequested /\ ~paused /\ emu \in {"checkPaused"} \cup Answering

IInv == TypeOK /\ FlagInv /\ CommandInv /\ SnapshotInv /\ StopInv

-----------------------------------------------------------------------------
(* The pieces of a command and of a response. *)

LEMMA NoneIsNeither ==
  None \notin Command /\ None \notin Response /\ "none" \notin Kinds
BY DEF None, Command, Response, Kinds

LEMMA CommandParts ==
  ASSUME NEW k \in Command
  PROVE  k.kind \in Kinds /\ k.n \in 0..MaxSteps /\ k.from \in Clients
BY DEF Command

\* An instruction leaves ip, the hit, the request and the history well typed,
\* and what it does to mustStop it does to pauseRequested too.
LEMMA Stepped ==
  ASSUME TypeOK, NEW hit \in Addrs \cup {NoAddr}, CpuStep(hit)
  PROVE  /\ ip' \in Addrs /\ watchpointHit' \in Addrs \cup {NoAddr}
         /\ pauseRequested' \in BOOLEAN /\ mustStop' \in BOOLEAN
         /\ lastExecuted' \in Addrs \cup {NoAddr}
         /\ mustStop' => pauseRequested'
BY DEF TypeOK, CpuStep

LEMMA NotifiedType ==
  ASSUME TypeOK
  PROVE  Notified \in [Clients -> ClientLocs]
BY DEF TypeOK, Notified, ClientLocs

-----------------------------------------------------------------------------
(* The initial states, and the steps of the two sides. *)

LEMMA InitIInv == Init => IInv
<1> SUFFICES ASSUME Init PROVE IInv
  OBVIOUS
<1>1. 0 \in 0..MaxSteps
  BY DebugAssumption
<1>2. TypeOK
  BY <1>1 DEF Init, TypeOK, EmuLocs, ClientLocs
<1>3. FlagInv /\ CommandInv /\ SnapshotInv /\ StopInv
  BY DEF Init, FlagInv, CommandInv, SnapshotInv, StopInv, Serving, Answering
<1> QED BY <1>2, <1>3 DEF IInv

\* What no client changes, the invariant on the emulator's side rests on; a
\* client only ever adds a request to pause.
LEMMA EmuSideKept ==
  ASSUME IInv, UNCHANGED EmuSide, pauseRequested => pauseRequested'
  PROVE  FlagInv' /\ CommandInv' /\ SnapshotInv' /\ StopInv'
<1>1. FlagInv'
  BY DEF IInv, FlagInv, EmuSide, Serving, Answering
<1>2. CommandInv'
  BY DEF IInv, CommandInv, EmuSide, Answering
<1>3. SnapshotInv'
  BY DEF IInv, SnapshotInv, EmuSide, Answering
<1>4. StopInv'
  BY DEF IInv, StopInv, EmuSide, Answering
<1> QED BY <1>1, <1>2, <1>3, <1>4

LEMMA GoesType ==
  ASSUME TypeOK, NEW c \in Clients, NEW from, NEW to \in ClientLocs, Goes(c, from, to)
  PROVE  client' \in [Clients -> ClientLocs]
BY DEF TypeOK, Goes

LEMMA ClientStep ==
  ASSUME IInv, NEW c \in Clients, Client(c)
  PROVE  IInv'
<1> USE DEF IInv
<1>1. CASE PauseCall(c)
  <2>1. client' \in [Clients -> ClientLocs]
    BY <1>1, GoesType DEF PauseCall, ClientLocs
  <2>2. TypeOK'
    BY <1>1, <2>1 DEF PauseCall, TypeOK, EmuSide
  <2> QED BY <1>1, <2>2, EmuSideKept DEF PauseCall
<1>2. CASE PauseRequest(c)
  <2>1. client' \in [Clients -> ClientLocs]
    BY <1>2, GoesType DEF PauseRequest, ClientLocs
  <2>2. TypeOK'
    BY <1>2, <2>1 DEF PauseRequest, TypeOK, EmuSide
  <2> QED BY <1>2, <2>2, EmuSideKept DEF PauseRequest
<1>3. CASE PauseLock(c)
  <2>1. client' \in [Clients -> ClientLocs]
    BY <1>3, GoesType DEF PauseLock, ClientLocs
  <2>2. TypeOK'
    BY <1>3, <2>1 DEF PauseLock, TypeOK, EmuSide
  <2> QED BY <1>3, <2>2, EmuSideKept DEF PauseLock
<1>4. CASE PauseTest(c)
  <2>1. client' \in [Clients -> ClientLocs]
    BY <1>4, GoesType DEF PauseTest, ClientLocs
  <2>2. TypeOK'
    BY <1>4, <2>1 DEF PauseTest, TypeOK, EmuSide
  <2> QED BY <1>4, <2>2, EmuSideKept DEF PauseTest
<1>5. CASE PauseSleep(c)
  <2>1. client' \in [Clients -> ClientLocs]
    BY <1>5, GoesType DEF PauseSleep, ClientLocs
  <2>2. TypeOK'
    BY <1>5, <2>1 DEF PauseSleep, TypeOK, EmuSide
  <2> QED BY <1>5, <2>2, EmuSideKept DEF PauseSleep
<1>6. CASE SendCall(c)
  <2>1. client' \in [Clients -> ClientLocs]
    BY <1>6, GoesType DEF SendCall, ClientLocs
  <2>2. request' \in [Clients -> Command \cup {None}]
    <3>0. PICK kind \in Tools \cap Kinds :
            \E n \in IF kind = "step" THEN 0..MaxSteps ELSE {0} :
              request' = [request EXCEPT ![c] = [kind |-> kind, n |-> n, from |-> c]]
      BY <1>6 DEF SendCall
    <3>1. PICK n \in IF kind = "step" THEN 0..MaxSteps ELSE {0} :
            request' = [request EXCEPT ![c] = [kind |-> kind, n |-> n, from |-> c]]
      BY <3>0
    <3>2. n \in 0..MaxSteps
      BY <3>1, DebugAssumption
    <3>3. [kind |-> kind, n |-> n, from |-> c] \in Command
      BY <3>1, <3>2 DEF Command
    <3> QED BY <3>1, <3>3 DEF TypeOK
  <2>3. TypeOK'
    BY <1>6, <2>1, <2>2 DEF SendCall, TypeOK, EmuSide
  <2> QED BY <1>6, <2>3, EmuSideKept DEF SendCall
<1>7. CASE SendPut(c)
  <2>1. client' \in [Clients -> ClientLocs]
    BY <1>7, GoesType DEF SendPut, ClientLocs
  <2>2. TypeOK'
    BY <1>7, <2>1 DEF SendPut, TypeOK, EmuSide
  <2> QED BY <1>7, <2>2, EmuSideKept DEF SendPut
<1>8. CASE SendTake(c)
  <2>1. client' \in [Clients -> ClientLocs]
    BY <1>8, GoesType DEF SendTake, ClientLocs
  <2>2. pendingResponse' \in Response \cup {None}
    BY <1>8 DEF SendTake, TypeOK
  <2>3. answer' \in [Clients -> Response \cup {None}]
    BY <1>8 DEF SendTake, TypeOK
  <2>4. TypeOK'
    BY <1>8, <2>1, <2>2, <2>3 DEF SendTake, TypeOK, EmuSide
  <2> QED BY <1>8, <2>4, EmuSideKept DEF SendTake
<1>9. CASE SetBreakpoint(c)
  <2>1. breakpoints' \subseteq Addrs
    BY <1>9 DEF SetBreakpoint, TypeOK
  <2>2. TypeOK'
    BY <1>9, <2>1 DEF SetBreakpoint, TypeOK, EmuSide
  <2> QED BY <1>9, <2>2, EmuSideKept DEF SetBreakpoint
<1>10. CASE SetWatchpoint(c)
  <2>1. TypeOK'
    BY <1>10 DEF SetWatchpoint, TypeOK, EmuSide
  <2> QED BY <1>10, <2>1, EmuSideKept DEF SetWatchpoint
<1>11. CASE SpuriousWakeup(c)
  <2>1. client' \in [Clients -> ClientLocs]
    BY <1>11, GoesType DEF SpuriousWakeup, ClientLocs
  <2>2. TypeOK'
    BY <1>11, <2>1 DEF SpuriousWakeup, TypeOK, EmuSide
  <2> QED BY <1>11, <2>2, EmuSideKept DEF SpuriousWakeup
<1> QED
  BY <1>1, <1>2, <1>3, <1>4, <1>5, <1>6, <1>7, <1>8, <1>9, <1>10, <1>11
  DEF Client, ClientGoesOn

LEMMA EmulatorStep ==
  ASSUME IInv, Emulator
  PROVE  IInv'
<1> USE DEF IInv, At, ClientSide
<1>1. CASE EmuCheckPaused
  <2>1. TypeOK'
    BY <1>1 DEF EmuCheckPaused, TypeOK, EmuLocs, shared, history
  <2>2. FlagInv'
    BY <1>1
    DEF EmuCheckPaused, FlagInv, TypeOK, CommandInv, Serving, Answering, shared,
        history, Kinds
  <2>3. CommandInv'
    BY <1>1
    DEF EmuCheckPaused, CommandInv, TypeOK, Answering, shared, history, Kinds
  <2>4. SnapshotInv'
    BY <1>1
    DEF EmuCheckPaused, SnapshotInv, FlagInv, CommandInv, Serving, Answering,
        shared, history, TypeOK, Kinds
  <2>5. StopInv'
    BY <1>1
    DEF EmuCheckPaused, StopInv, FlagInv, CommandInv, Serving, Answering,
        shared, history, TypeOK, Kinds
  <2> QED BY <2>1, <2>2, <2>3, <2>4, <2>5
<1>2. CASE EmuCheckRequest
  <2>1. TypeOK'
    BY <1>2, ZenonT(60) DEF EmuCheckRequest, TypeOK, EmuLocs, shared, history
  <2>2. FlagInv'
    BY <1>2
    DEF EmuCheckRequest, FlagInv, TypeOK, CommandInv, Serving, Answering,
        shared, history, Kinds
  <2>3. CommandInv'
    BY <1>2
    DEF EmuCheckRequest, CommandInv, TypeOK, Answering, shared, history, Kinds
  <2>4. SnapshotInv'
    BY <1>2
    DEF EmuCheckRequest, SnapshotInv, FlagInv, CommandInv, Serving, Answering,
        shared, history, TypeOK, Kinds
  <2>5. StopInv'
    BY <1>2
    DEF EmuCheckRequest, StopInv, FlagInv, CommandInv, Serving, Answering,
        shared, history, TypeOK, Kinds
  <2> QED BY <2>1, <2>2, <2>3, <2>4, <2>5
<1>3. CASE EmuCheckBreakpoint
  <2>1. TypeOK'
    BY <1>3 DEF EmuCheckBreakpoint, TypeOK, EmuLocs, shared, history
  <2>2. FlagInv'
    BY <1>3
    DEF EmuCheckBreakpoint, FlagInv, TypeOK, CommandInv, Serving, Answering,
        shared, history, Kinds
  <2>3. CommandInv'
    BY <1>3
    DEF EmuCheckBreakpoint, CommandInv, TypeOK, Answering, shared, history,
        Kinds
  <2>4. SnapshotInv'
    BY <1>3
    DEF EmuCheckBreakpoint, SnapshotInv, FlagInv, CommandInv, Serving,
        Answering, shared, history, TypeOK, Kinds
  <2>5. StopInv'
    BY <1>3
    DEF EmuCheckBreakpoint, StopInv, FlagInv, CommandInv, Serving, Answering,
        shared, history, TypeOK, Kinds
  <2> QED BY <2>1, <2>2, <2>3, <2>4, <2>5
<1>4. CASE EmuExecutes
  <2>0. CpuStep(watchpointHit) /\ watchpointHit \in Addrs \cup {NoAddr}
    BY <1>4 DEF EmuExecutes, TypeOK
  <2>1. TypeOK'
    BY <1>4, <2>0, Stepped DEF EmuExecutes, TypeOK, EmuLocs, shared, history
  <2>2. FlagInv'
    BY <1>4, <2>0, Stepped
    DEF EmuExecutes, FlagInv, TypeOK, CommandInv, Serving, Answering, shared,
        history, Kinds
  <2>3. CommandInv'
    BY <1>4, <2>0, Stepped
    DEF EmuExecutes, CommandInv, TypeOK, Answering, shared, history, Kinds
  <2>4. SnapshotInv'
    BY <1>4, <2>0, Stepped
    DEF EmuExecutes, SnapshotInv, FlagInv, CommandInv, Serving, Answering,
        shared, history, TypeOK, Kinds
  <2>5. StopInv'
    BY <1>4, <2>0, Stepped
    DEF EmuExecutes, StopInv, FlagInv, CommandInv, Serving, Answering, shared,
        history, TypeOK, Kinds
  <2> QED BY <2>1, <2>2, <2>3, <2>4, <2>5
<1>5. CASE EmuPauseSnapshot
  <2>1. TypeOK'
    BY <1>5 DEF EmuPauseSnapshot, TypeOK, EmuLocs, shared, history
  <2>2. FlagInv'
    BY <1>5
    DEF EmuPauseSnapshot, FlagInv, TypeOK, CommandInv, Serving, Answering,
        shared, history, Kinds
  <2>3. CommandInv'
    BY <1>5
    DEF EmuPauseSnapshot, CommandInv, TypeOK, Answering, shared, history, Kinds
  <2>4. SnapshotInv'
    BY <1>5
    DEF EmuPauseSnapshot, SnapshotInv, FlagInv, CommandInv, Serving, Answering,
        shared, history, TypeOK, Kinds
  <2>5. StopInv'
    BY <1>5
    DEF EmuPauseSnapshot, StopInv, FlagInv, CommandInv, Serving, Answering,
        shared, history, TypeOK, Kinds
  <2> QED BY <2>1, <2>2, <2>3, <2>4, <2>5
<1>6. CASE EmuPauses
  <2>1. TypeOK'
    BY <1>6 DEF EmuPauses, TypeOK, EmuLocs, shared, history
  <2>2. FlagInv'
    BY <1>6
    DEF EmuPauses, FlagInv, TypeOK, CommandInv, Serving, Answering, shared,
        history, Kinds
  <2>3. CommandInv'
    BY <1>6 DEF EmuPauses, CommandInv, TypeOK, Answering, shared, history, Kinds
  <2>4. SnapshotInv'
    BY <1>6
    DEF EmuPauses, SnapshotInv, FlagInv, CommandInv, Serving, Answering, shared,
        history, TypeOK, Kinds
  <2>5. StopInv'
    BY <1>6
    DEF EmuPauses, StopInv, FlagInv, CommandInv, Serving, Answering, shared,
        history, TypeOK, Kinds
  <2> QED BY <2>1, <2>2, <2>3, <2>4, <2>5
<1>7. CASE EmuNotifiesPaused
  <2>1. TypeOK'
    BY <1>7, NotifiedType DEF EmuNotifiesPaused, TypeOK, EmuLocs, shared, history
  <2>2. FlagInv'
    BY <1>7, NotifiedType
    DEF EmuNotifiesPaused, FlagInv, TypeOK, CommandInv, Serving, Answering,
        shared, history, Kinds
  <2>3. CommandInv'
    BY <1>7, NotifiedType
    DEF EmuNotifiesPaused, CommandInv, TypeOK, Answering, shared, history, Kinds
  <2>4. SnapshotInv'
    BY <1>7, NotifiedType
    DEF EmuNotifiesPaused, SnapshotInv, FlagInv, CommandInv, Serving, Answering,
        shared, history, TypeOK, Kinds
  <2>5. StopInv'
    BY <1>7, NotifiedType
    DEF EmuNotifiesPaused, StopInv, FlagInv, CommandInv, Serving, Answering,
        shared, history, TypeOK, Kinds
  <2> QED BY <2>1, <2>2, <2>3, <2>4, <2>5
<1>8. CASE EmuServes
  <2>1. TypeOK'
    BY <1>8, NoneIsNeither, CommandParts, DebugAssumption
    DEF EmuServes, TypeOK, EmuLocs, shared, history
  <2>2. FlagInv'
    BY <1>8, NoneIsNeither, CommandParts, DebugAssumption
    DEF EmuServes, FlagInv, TypeOK, CommandInv, Serving, Answering, shared,
        history, Kinds
  <2>3. CommandInv'
    <3>1. CASE pendingCommand = None
      BY <1>8, <3>1 DEF EmuServes, CommandInv, Answering, None
    <3>2. CASE pendingCommand \in Command
      <4>1. /\ pendingCommand # None
            /\ pendingCommand.kind \in Kinds /\ pendingCommand.n \in 0..MaxSteps
        BY <3>2, NoneIsNeither, CommandParts
      <4>2. pendingCommand.n # 0 => pendingCommand.n > 0
        BY <4>1, DebugAssumption
      <4> QED BY <1>8, <3>2, <4>1, <4>2 DEF EmuServes, CommandInv, Answering, Kinds
    <3> QED BY <3>1, <3>2 DEF TypeOK
  <2>4. SnapshotInv'
    BY <1>8, NoneIsNeither, CommandParts, DebugAssumption
    DEF EmuServes, SnapshotInv, FlagInv, CommandInv, Serving, Answering, shared,
        history, TypeOK, Kinds
  <2>5. StopInv'
    BY <1>8, NoneIsNeither, CommandParts, DebugAssumption
    DEF EmuServes, StopInv, FlagInv, CommandInv, Serving, Answering, shared,
        history, TypeOK, Kinds
  <2> QED BY <2>1, <2>2, <2>3, <2>4, <2>5
<1>9. CASE EmuContinues
  <2>0. CpuStep(NoAddr) /\ NoAddr \in Addrs \cup {NoAddr}
    BY <1>9 DEF EmuContinues
  <2>1. TypeOK'
    BY <1>9, <2>0, Stepped DEF EmuContinues, TypeOK, EmuLocs, shared, history
  <2>2. FlagInv'
    BY <1>9, <2>0, Stepped
    DEF EmuContinues, FlagInv, TypeOK, CommandInv, Serving, Answering, shared,
        history, Kinds
  <2>3. CommandInv'
    BY <1>9, <2>0, Stepped
    DEF EmuContinues, CommandInv, TypeOK, Answering, shared, history, Kinds
  <2>4. SnapshotInv'
    BY <1>9, <2>0, Stepped
    DEF EmuContinues, SnapshotInv, FlagInv, CommandInv, Serving, Answering,
        shared, history, TypeOK, Kinds
  <2>5. StopInv'
    BY <1>9, <2>0, Stepped
    DEF EmuContinues, StopInv, FlagInv, CommandInv, Serving, Answering, shared,
        history, TypeOK, Kinds
  <2> QED BY <2>1, <2>2, <2>3, <2>4, <2>5
<1>10. CASE EmuResumes
  <2>1. TypeOK'
    BY <1>10, CommandParts DEF EmuResumes, TypeOK, EmuLocs, shared, history
  <2>2. FlagInv'
    BY <1>10, CommandParts
    DEF EmuResumes, FlagInv, TypeOK, CommandInv, Serving, Answering, shared,
        history, Kinds
  <2>3. CommandInv'
    BY <1>10, CommandParts
    DEF EmuResumes, CommandInv, TypeOK, Answering, shared, history, Kinds
  <2>4. SnapshotInv'
    BY <1>10, CommandParts
    DEF EmuResumes, SnapshotInv, FlagInv, CommandInv, Serving, Answering,
        shared, history, TypeOK, Kinds
  <2>5. StopInv'
    BY <1>10, CommandParts
    DEF EmuResumes, StopInv, FlagInv, CommandInv, Serving, Answering, shared,
        history, TypeOK, Kinds
  <2> QED BY <2>1, <2>2, <2>3, <2>4, <2>5
<1>11. CASE EmuSteps
  <2>0. CpuStep(watchpointHit) /\ watchpointHit \in Addrs \cup {NoAddr}
    BY <1>11 DEF EmuSteps, TypeOK
  <2>1. TypeOK'
    <3>1. left - 1 \in 0..MaxSteps
      BY <1>11, DebugAssumption DEF EmuSteps, TypeOK, CommandInv
    <3> QED BY <1>11, <2>0, <3>1, Stepped DEF EmuSteps, TypeOK, EmuLocs
  <2>2. FlagInv'
    BY <1>11, <2>0, Stepped
    DEF EmuSteps, FlagInv, TypeOK, CommandInv, Serving, Answering, shared,
        history, Kinds
  <2>3. CommandInv'
    BY <1>11, <2>0, Stepped
    DEF EmuSteps, CommandInv, TypeOK, Answering, shared, history, Kinds
  <2>4. SnapshotInv'
    BY <1>11, <2>0, Stepped
    DEF EmuSteps, SnapshotInv, FlagInv, CommandInv, Serving, Answering, shared,
        history, TypeOK, Kinds
  <2>5. StopInv'
    BY <1>11, <2>0, Stepped
    DEF EmuSteps, StopInv, FlagInv, CommandInv, Serving, Answering, shared,
        history, TypeOK, Kinds
  <2> QED BY <2>1, <2>2, <2>3, <2>4, <2>5
<1>12. CASE EmuStepped
  <2>1. TypeOK'
    BY <1>12 DEF EmuStepped, TypeOK, EmuLocs, shared, history
  <2>2. FlagInv'
    BY <1>12
    DEF EmuStepped, FlagInv, TypeOK, CommandInv, Serving, Answering, shared,
        history, Kinds
  <2>3. CommandInv'
    BY <1>12 DEF EmuStepped, CommandInv, TypeOK, Answering, shared, history, Kinds
  <2>4. SnapshotInv'
    BY <1>12
    DEF EmuStepped, SnapshotInv, FlagInv, CommandInv, Serving, Answering,
        shared, history, TypeOK, Kinds
  <2>5. StopInv'
    BY <1>12
    DEF EmuStepped, StopInv, FlagInv, CommandInv, Serving, Answering, shared,
        history, TypeOK, Kinds
  <2> QED BY <2>1, <2>2, <2>3, <2>4, <2>5
<1>13. CASE EmuStepSnapshot
  <2>1. TypeOK'
    BY <1>13 DEF EmuStepSnapshot, TypeOK, EmuLocs, shared, history
  <2>2. FlagInv'
    BY <1>13
    DEF EmuStepSnapshot, FlagInv, TypeOK, CommandInv, Serving, Answering,
        shared, history, Kinds
  <2>3. CommandInv'
    BY <1>13
    DEF EmuStepSnapshot, CommandInv, TypeOK, Answering, shared, history, Kinds
  <2>4. SnapshotInv'
    BY <1>13
    DEF EmuStepSnapshot, SnapshotInv, FlagInv, CommandInv, Serving, Answering,
        shared, history, TypeOK, Kinds
  <2>5. StopInv'
    BY <1>13
    DEF EmuStepSnapshot, StopInv, FlagInv, CommandInv, Serving, Answering,
        shared, history, TypeOK, Kinds
  <2> QED BY <2>1, <2>2, <2>3, <2>4, <2>5
<1>14. CASE EmuResponds
  <2>1. TypeOK'
    BY <1>14, CommandParts
    DEF EmuResponds, TypeOK, EmuLocs, shared, history, CommandInv, Response,
        Answering
  <2>2. FlagInv'
    BY <1>14, CommandParts
    DEF EmuResponds, FlagInv, TypeOK, CommandInv, Serving, Answering, shared,
        history, Kinds
  <2>3. CommandInv'
    BY <1>14, CommandParts
    DEF EmuResponds, CommandInv, TypeOK, Answering, shared, history, Kinds
  <2>4. SnapshotInv'
    BY <1>14, CommandParts
    DEF EmuResponds, SnapshotInv, FlagInv, CommandInv, Serving, Answering,
        shared, history, TypeOK, Kinds
  <2>5. StopInv'
    BY <1>14, CommandParts
    DEF EmuResponds, StopInv, FlagInv, CommandInv, Serving, Answering, shared,
        history, TypeOK, Kinds
  <2> QED BY <2>1, <2>2, <2>3, <2>4, <2>5
<1>15. CASE EmuNotifiesResponse
  <2>1. TypeOK'
    BY <1>15, NotifiedType, CommandParts
    DEF EmuNotifiesResponse, TypeOK, EmuLocs, shared, history
  <2>2. FlagInv'
    BY <1>15, NotifiedType, CommandParts
    DEF EmuNotifiesResponse, FlagInv, TypeOK, CommandInv, Serving, Answering,
        shared, history, Kinds
  <2>3. CommandInv'
    BY <1>15, NotifiedType, CommandParts
    DEF EmuNotifiesResponse, CommandInv, TypeOK, Answering, shared, history,
        Kinds
  <2>4. SnapshotInv'
    BY <1>15, NotifiedType, CommandParts
    DEF EmuNotifiesResponse, SnapshotInv, FlagInv, CommandInv, Serving,
        Answering, shared, history, TypeOK, Kinds
  <2>5. StopInv'
    BY <1>15, NotifiedType, CommandParts
    DEF EmuNotifiesResponse, StopInv, FlagInv, CommandInv, Serving, Answering,
        shared, history, TypeOK, Kinds
  <2> QED BY <2>1, <2>2, <2>3, <2>4, <2>5
<1> QED
  BY <1>1, <1>2, <1>3, <1>4, <1>5, <1>6, <1>7, <1>8, <1>9, <1>10, <1>11, <1>12,
     <1>13, <1>14, <1>15
  DEF Emulator

LEMMA IInvStep == IInv /\ [Next]_vars => IInv'
<1> SUFFICES ASSUME IInv, [Next]_vars PROVE IInv'
  OBVIOUS
<1>1. CASE Emulator
  BY <1>1, EmulatorStep
<1>2. CASE \E c \in Clients : Client(c)
  BY <1>2, ClientStep
<1>3. CASE UNCHANGED vars
  BY <1>3 DEF IInv, TypeOK, FlagInv, CommandInv, SnapshotInv, StopInv, vars, shared,
     history, Answering, Serving
<1> QED BY <1>1, <1>2, <1>3 DEF Next

-----------------------------------------------------------------------------
(* The results. *)

\* Every variable keeps its type, whatever the clients do at the same time.
THEOREM TypeCorrect == Spec => []TypeOK
<1>1. IInv => TypeOK
  BY DEF IInv
<1> QED BY InitIInv, IInvStep, <1>1, PTL DEF Spec

\* What the tools report of a stopped emulator is where it stands: the
\* snapshot of do_pause, taken again by each Step.
THEOREM SnapshotAlwaysCurrent == Spec => []SnapshotCurrent
<1>1. IInv => SnapshotCurrent
  BY DEF IInv, SnapshotInv, SnapshotCurrent, Stopped
<1> QED BY InitIInv, IInvStep, <1>1, PTL DEF Spec

\* No instruction follows the one that wrote a watched address before the
\* emulator has stopped.
THEOREM WatchpointAlwaysStops == Spec => WatchpointStops
<1>1. IInv /\ [Next]_vars
        => [emu' # emu /\ emu \in {"execute", "continue", "step"} => ~mustStop]_vars
  BY DEF IInv, StopInv, Answering
<1> QED BY InitIInv, IInvStep, <1>1, PTL DEF Spec, WatchpointStops

-----------------------------------------------------------------------------
(* A lone client.  DebugShared has room for one command and one response,   *)
(* and nothing in them says whose they are: of two clients one may take the *)
(* answer to the other and leave its own command behind.  What is promised  *)
(* is promised to a server that has one request at a time.                  *)

Lone == \A c, d \in Clients : c = d

AtWork == {"continue", "resume", "step", "stepped", "stepSnapshot", "respond"}

\* A command is in one place at a time, from the moment it is put until its
\* response is taken, and meanwhile the client waits.
InOnePlace ==
  /\ pendingCommand # None => emu \notin AtWork /\ pendingResponse = None
  /\ emu \in AtWork => pendingResponse = None
  /\ pendingCommand # None \/ emu \in AtWork \/ pendingResponse # None
       => \A c \in Clients : client[c] \in {"take", "await"}

LoneInv == TypeOK /\ InOnePlace

\* A notification leaves a client that waits waiting.
LEMMA NotifiedWaits ==
  ASSUME NEW c \in Clients
  PROVE  client[c] \in {"take", "await"} => Notified[c] \in {"take", "await"}
BY DEF Notified

LEMMA LoneEmulatorStep ==
  ASSUME LoneInv, Emulator
  PROVE  InOnePlace'
<1> USE DEF LoneInv, InOnePlace, At, ClientSide, AtWork
<1>1. CASE EmuCheckPaused
  BY <1>1 DEF EmuCheckPaused, shared, history
<1>2. CASE EmuCheckRequest
  BY <1>2 DEF EmuCheckRequest, shared, history
<1>3. CASE EmuCheckBreakpoint
  BY <1>3 DEF EmuCheckBreakpoint, shared, history
<1>4. CASE EmuExecutes
  BY <1>4 DEF EmuExecutes
<1>5. CASE EmuPauseSnapshot
  BY <1>5 DEF EmuPauseSnapshot
<1>6. CASE EmuPauses
  BY <1>6 DEF EmuPauses
<1>7. CASE EmuNotifiesPaused
  BY <1>7, NotifiedWaits DEF EmuNotifiesPaused, shared, history
<1>8. CASE EmuServes
  <2>1. pendingCommand = None => emu' = "checkPaused"
    BY <1>8 DEF EmuServes, None
  <2>2. pendingCommand # None => pendingResponse = None
    OBVIOUS
  <2>3. pendingCommand' = None /\ UNCHANGED <<client, pendingResponse>>
    BY <1>8 DEF EmuServes
  <2>4. emu' \in AtWork => pendingCommand # None
    BY <2>1
  <2> QED BY <1>8, <2>2, <2>3, <2>4
<1>9. CASE EmuContinues
  BY <1>9 DEF EmuContinues
<1>10. CASE EmuResumes
  BY <1>10 DEF EmuResumes
<1>11. CASE EmuSteps
  BY <1>11 DEF EmuSteps
<1>12. CASE EmuStepped
  BY <1>12 DEF EmuStepped
<1>13. CASE EmuStepSnapshot
  BY <1>13 DEF EmuStepSnapshot
<1>14. CASE EmuResponds
  BY <1>14 DEF EmuResponds
<1>15. CASE EmuNotifiesResponse
  BY <1>15, NotifiedWaits DEF EmuNotifiesResponse, shared, history
<1> QED
  BY <1>1, <1>2, <1>3, <1>4, <1>5, <1>6, <1>7, <1>8, <1>9, <1>10, <1>11, <1>12,
     <1>13, <1>14, <1>15
  DEF Emulator

LEMMA LoneClientStep ==
  ASSUME Lone, LoneInv, NEW c \in Clients, Client(c)
  PROVE  InOnePlace'
<1> USE DEF LoneInv, InOnePlace, EmuSide, AtWork
<1>0. /\ \A d \in Clients : d = c
      /\ client \in [Clients -> ClientLocs]
  BY DEF Lone, TypeOK
<1>1. CASE PauseCall(c)
  BY <1>0, <1>1 DEF PauseCall, Goes
<1>2. CASE PauseRequest(c)
  BY <1>0, <1>2 DEF PauseRequest, Goes
<1>3. CASE PauseLock(c)
  BY <1>0, <1>3 DEF PauseLock, Goes
<1>4. CASE PauseTest(c)
  BY <1>0, <1>4 DEF PauseTest, Goes
<1>5. CASE PauseSleep(c)
  BY <1>0, <1>5 DEF PauseSleep, Goes
<1>6. CASE SendCall(c)
  BY <1>0, <1>6 DEF SendCall, Goes
<1>7. CASE SendPut(c)
  BY <1>0, <1>7 DEF SendPut, Goes
<1>8. CASE SendTake(c)
  BY <1>0, <1>8 DEF SendTake, Goes
<1>9. CASE SetBreakpoint(c)
  BY <1>9 DEF SetBreakpoint
<1>10. CASE SetWatchpoint(c)
  BY <1>10 DEF SetWatchpoint
<1>11. CASE SpuriousWakeup(c)
  BY <1>0, <1>11 DEF SpuriousWakeup, Goes
<1> QED
  BY <1>1, <1>2, <1>3, <1>4, <1>5, <1>6, <1>7, <1>8, <1>9, <1>10, <1>11
  DEF Client, ClientGoesOn

\* No command of a lone client is executed twice, dropped or answered twice:
\* send_command returns with the response to what it sent, and leaves nothing
\* behind for the next call.
THEOREM LoneCommandServedOnce ==
  ASSUME Lone
  PROVE  Spec => []CommandServedOnce
<1>1. Init => InOnePlace
  BY DEF Init, InOnePlace, AtWork
<1>2. TypeOK /\ InOnePlace /\ [Next]_vars => InOnePlace'
  <2> SUFFICES ASSUME LoneInv, [Next]_vars PROVE InOnePlace'
    BY DEF LoneInv
  <2>1. CASE Emulator
    BY <2>1, LoneEmulatorStep
  <2>2. CASE \E c \in Clients : Client(c)
    BY <2>2, LoneClientStep
  <2>3. CASE UNCHANGED vars
    BY <2>3 DEF LoneInv, InOnePlace, vars, shared
  <2> QED BY <2>1, <2>2, <2>3 DEF Next
<1>3. InOnePlace => CommandServedOnce
  BY DEF InOnePlace, CommandServedOnce, AtWork
<1> QED BY <1>1, <1>2, <1>3, TypeCorrect, PTL DEF Spec
=============================================================================
