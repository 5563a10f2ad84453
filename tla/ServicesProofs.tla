--------------------------- MODULE ServicesProofs ---------------------------
(***************************************************************************)
(* EndIsReported of Services, from EndsIInv.                               *)
(***************************************************************************)
EXTENDS Services, TLAPS

\* What a service may do.
Step(s) ==
    \/ Announce(s) \/ MainStep(s)
    \/ SendStop(s) \/ HandlerStep(s) \/ Interrogate(s)
    \/ Exit(s) \/ Kill(s)

\* Nothing of service t changes.
Rests(t) ==
    /\ main'[t] = main[t] /\ handler'[t] = handler[t] /\ status'[t] = status[t]
    /\ told'[t] = told[t] /\ ended'[t] = ended[t] /\ sign'[t] = sign[t] /\ odd'[t] = odd[t]

-----------------------------------------------------------------------------
\* Initially no process runs.
LEMMA EndsInit == Init => EndsIInv
<1> SUFFICES ASSUME Init PROVE EndsIInv
  OBVIOUS
<1>1. TypeOK
  BY DEF Init, TypeOK, MainPlaces, States, InitialSign
<1>2. ASSUME NEW s \in Services PROVE Ends(s)
  BY ServicesAssumption, SMT DEF Init, Ends, GatewayEnds, SmsetEnds, InitialSign
<1> QED
  BY <1>1, <1>2 DEF EndsIInv

\* A step of one service keeps the types and leaves the others alone.
LEMMA StepTypes ==
    ASSUME TypeOK, NEW s \in Services, Step(s)
    PROVE  TypeOK' /\ \A t \in Services \ {s} : Rests(t)
<1> USE DEF TypeOK, MainPlaces, States, Rests
<1>1. CASE Announce(s)
  BY <1>1, SMT DEF Announce, Walk, Write
<1>2. CASE CreateStopEvent(s)
  BY <1>2, SMT DEF CreateStopEvent, Walk
<1>3. CASE WriteRunning(s)
  BY <1>3, SMT DEF WriteRunning, Walk, Write
<1>4. CASE TellRunning(s)
  BY <1>4, SMT DEF TellRunning, Walk, Tell
<1>5. CASE StartWorker(s)
  BY <1>5, SMT DEF StartWorker, Walk
<1>6. CASE NoWorker(s)
  BY <1>6, SMT DEF NoWorker, Walk
<1>7. CASE Connect(s)
  BY <1>7, SMT DEF Connect, Walk
<1>8. CASE RetryLater(s)
  BY <1>8, SMT DEF RetryLater, Walk
<1>9. CASE WaitForStop(s)
  BY <1>9, SMT DEF WaitForStop, Walk
<1>10. CASE GiveUp(s)
  BY <1>10, SMT DEF GiveUp, Walk
<1>11. CASE LeaveLoop(s)
  BY <1>11, SMT DEF LeaveLoop, Walk
<1>12. CASE WorkerWrites(s)
  BY <1>12, SMT DEF WorkerWrites, Walk, Write
<1>13. CASE WorkerTells(s)
  BY <1>13, SMT DEF WorkerTells, Walk, Tell
<1>14. CASE CloseStopEvent(s)
  BY <1>14, SMT DEF CloseStopEvent, Walk
<1>15. CASE WriteStopped(s)
  BY <1>15, SMT DEF WriteStopped, Walk, Write
<1>16. CASE TellStopped(s)
  BY <1>16, SMT DEF TellStopped, Walk, Tell
<1>17. CASE SendStop(s)
  BY <1>17, SMT DEF SendStop, Handle
<1>18. CASE HandlerWrites(s)
  BY <1>18, SMT DEF HandlerWrites, Handle, Write
<1>19. CASE HandlerTells(s)
  BY <1>19, SMT DEF HandlerTells, Handle, Tell
<1>20. CASE HandlerSignals(s)
  BY <1>20, SMT DEF HandlerSignals, Handle
<1>21. CASE Interrogate(s)
  BY <1>21, SMT DEF Interrogate, Tell
<1>22. CASE Exit(s)
  BY <1>22, SMT DEF Exit, Gone, InitialSign
<1>23. CASE Kill(s)
  BY <1>23, SMT DEF Kill, Gone, InitialSign
<1> QED
  BY <1>1, <1>2, <1>3, <1>4, <1>5, <1>6, <1>7, <1>8, <1>9, <1>10, <1>11, <1>12,
     <1>13, <1>14, <1>15, <1>16, <1>17, <1>18, <1>19, <1>20, <1>21, <1>22, <1>23,
     Zenon DEF Step, MainStep, HandlerStep

\* What SetServiceStatus reports.
LEMMA Told ==
    ASSUME TypeOK, NEW s \in Services, Tell(s)
    PROVE  told'[s] = status[s] /\ (ended'[s] <=> ended[s] \/ status[s] = "stopped")
BY DEF TypeOK, Tell

\* The thread and the handler of the gateway keep what its end rests on.
LEMMA GatewayStep ==
    ASSUME TypeOK, NEW s \in Services, s = "gateway", Ends(s), Step(s)
    PROVE  Ends(s)'
<1> USE DEF TypeOK, Ends, Excused, Excuses, GatewayEnds, StopIsKnown
<1>1. CASE Announce(s)
  BY <1>1, SMT DEF Announce, Walk, Write
<1>2. CASE CreateStopEvent(s)
  BY <1>2, SMT DEF CreateStopEvent, Walk
<1>3. CASE WriteRunning(s)
  BY <1>3, SMT DEF WriteRunning, Walk, Write
<1>4. CASE TellRunning(s)
  BY <1>4, Told, SMT DEF TellRunning, Walk
<1>5. CASE StartWorker(s)
  BY <1>5, SMT DEF StartWorker, Walk
<1>6. CASE NoWorker(s)
  BY <1>6, SMT DEF NoWorker, Walk
<1>7. CASE Connect(s)
  BY <1>7, SMT DEF Connect, Walk
<1>8. CASE RetryLater(s)
  BY <1>8, SMT DEF RetryLater, Walk
<1>9. CASE WaitForStop(s)
  BY <1>9, SMT DEF WaitForStop, Walk
<1>10. CASE GiveUp(s)
  BY <1>10, SMT DEF GiveUp, Walk
<1>11. CASE LeaveLoop(s)
  BY <1>11, SMT DEF LeaveLoop, Walk
<1>12. CASE WorkerWrites(s)
  BY <1>12, SMT DEF WorkerWrites, Walk, Write
<1>13. CASE WorkerTells(s)
  BY <1>13, Told, SMT DEF WorkerTells, Walk
<1>14. CASE CloseStopEvent(s)
  BY <1>14, SMT DEF CloseStopEvent, Walk
<1>15. CASE WriteStopped(s)
  BY <1>15, SMT DEF WriteStopped, Walk, Write
<1>16. CASE TellStopped(s)
  BY <1>16, Told, SMT DEF TellStopped, Walk
<1>17. CASE SendStop(s)
  BY <1>17, SMT DEF SendStop, Handle
<1>18. CASE HandlerWrites(s)
  BY <1>18, SMT DEF HandlerWrites, Handle, Write
<1>19. CASE HandlerTells(s)
  BY <1>19, Told, SMT DEF HandlerTells, Handle
<1>20. CASE HandlerSignals(s)
  BY <1>20, SMT DEF HandlerSignals, Handle
<1>21. CASE Interrogate(s)
  BY <1>21, Told, SMT DEF Interrogate
<1>22. CASE Exit(s)
  BY <1>22, SMT DEF Exit, Gone, InitialSign
<1>23. CASE Kill(s)
  BY <1>23, SMT DEF Kill, Gone, InitialSign
<1> QED
  BY <1>1, <1>2, <1>3, <1>4, <1>5, <1>6, <1>7, <1>8, <1>9, <1>10, <1>11, <1>12,
     <1>13, <1>14, <1>15, <1>16, <1>17, <1>18, <1>19, <1>20, <1>21, <1>22, <1>23,
     Zenon DEF Step, MainStep, HandlerStep

\* The same of smset, whose thread reports its end twice.
LEMMA SmsetStep ==
    ASSUME TypeOK, NEW s \in Services, s = "smset", Ends(s), Step(s)
    PROVE  Ends(s)'
<1> USE DEF TypeOK, Ends, Excused, Excuses, SmsetEnds
<1>1. CASE Announce(s)
  BY <1>1, SMT DEF Announce, Walk, Write
<1>2. CASE CreateStopEvent(s)
  BY <1>2, SMT DEF CreateStopEvent, Walk
<1>3. CASE WriteRunning(s)
  BY <1>3, SMT DEF WriteRunning, Walk, Write
<1>4. CASE TellRunning(s)
  BY <1>4, Told, SMT DEF TellRunning, Walk
<1>5. CASE StartWorker(s)
  BY <1>5, SMT DEF StartWorker, Walk
<1>6. CASE NoWorker(s)
  BY <1>6, SMT DEF NoWorker, Walk
<1>7. CASE Connect(s)
  BY <1>7, SMT DEF Connect, Walk
<1>8. CASE RetryLater(s)
  BY <1>8, SMT DEF RetryLater, Walk
<1>9. CASE WaitForStop(s)
  BY <1>9, SMT DEF WaitForStop, Walk
<1>10. CASE GiveUp(s)
  BY <1>10, SMT DEF GiveUp, Walk
<1>11. CASE LeaveLoop(s)
  BY <1>11, SMT DEF LeaveLoop, Walk
<1>12. CASE WorkerWrites(s)
  BY <1>12, SMT DEF WorkerWrites, Walk, Write
<1>13. CASE WorkerTells(s)
  BY <1>13, Told, SMT DEF WorkerTells, Walk
<1>14. CASE CloseStopEvent(s)
  BY <1>14, SMT DEF CloseStopEvent, Walk
<1>15. CASE WriteStopped(s)
  BY <1>15, SMT DEF WriteStopped, Walk, Write
<1>16. CASE TellStopped(s)
  BY <1>16, Told, SMT DEF TellStopped, Walk
<1>17. CASE SendStop(s)
  BY <1>17, SMT DEF SendStop, Handle
<1>18. CASE HandlerWrites(s)
  BY <1>18, SMT DEF HandlerWrites, Handle, Write
<1>19. CASE HandlerTells(s)
  BY <1>19, Told, SMT DEF HandlerTells, Handle
<1>20. CASE HandlerSignals(s)
  BY <1>20, SMT DEF HandlerSignals, Handle
<1>21. CASE Interrogate(s)
  BY <1>21, Told, SMT DEF Interrogate
<1>22. CASE Exit(s)
  BY <1>22, SMT DEF Exit, Gone, InitialSign
<1>23. CASE Kill(s)
  BY <1>23, SMT DEF Kill, Gone, InitialSign
<1> QED
  BY <1>1, <1>2, <1>3, <1>4, <1>5, <1>6, <1>7, <1>8, <1>9, <1>10, <1>11, <1>12,
     <1>13, <1>14, <1>15, <1>16, <1>17, <1>18, <1>19, <1>20, <1>21, <1>22, <1>23,
     Zenon DEF Step, MainStep, HandlerStep

\* A step of any service keeps EndsIInv.
LEMMA EndsStep == EndsIInv /\ [Next]_serviceVars => EndsIInv'
<1> SUFFICES ASSUME EndsIInv, [Next]_serviceVars PROVE EndsIInv'
  OBVIOUS
<1>1. CASE UNCHANGED serviceVars
  BY <1>1 DEF serviceVars, EndsIInv, TypeOK, Ends, Excused, Excuses, GatewayEnds, SmsetEnds,
              StopIsKnown
<1>2. ASSUME NEW s \in Services, Step(s) PROVE EndsIInv'
  <2>1. TypeOK' /\ \A t \in Services \ {s} : Rests(t)
    BY <1>2, StepTypes DEF EndsIInv
  <2>2. Ends(s)'
    BY <1>2, GatewayStep, SmsetStep, ServicesAssumption DEF EndsIInv
  <2>3. ASSUME NEW t \in Services, t # s PROVE Ends(t)'
    <3>1. Rests(t) /\ Ends(t)
      BY <2>1, <2>3 DEF EndsIInv
    <3> QED
      BY <3>1 DEF Rests, Ends, Excused, Excuses, GatewayEnds, SmsetEnds, StopIsKnown
  <2> QED
    BY <2>1, <2>2, <2>3 DEF EndsIInv
<1> QED
  BY <1>1, <1>2 DEF Next, Step

\* Whatever the handler writes into the shared record, a service that is
\* through has reported SERVICE_STOPPED (lines 1668, 1731; main.c 100-104, 134).
THEOREM EndsAreReported == Spec => []EndIsReported
<1>1. EndsIInv => EndIsReported
  BY DEF EndsIInv, EndIsReported, Ends, GatewayEnds, SmsetEnds
<1> QED
  BY <1>1, EndsInit, EndsStep, PTL DEF Spec
=============================================================================
