-------------------------- MODULE LifecycleProofs --------------------------
(***************************************************************************)
(* Proofs about Lifecycle: a stopped unit leaves no script behind, and the *)
(* script of a serving daemon runs and is its own, for any number of       *)
(* retries, faults and calls that KWin owes.                               *)
(***************************************************************************)
EXTENDS Lifecycle, TLAPS

CallNames == {"load", "run", "unload"}

\* There is a process exactly while the unit is active, and only it waits.
Waiting ==
    /\ pc = "off" <=> unit # "active"
    /\ await # 0 => /\ kwin /\ reply = "none" /\ await = Len(calls)
                    /\ pc \in {"loading", "running"}
                    /\ pc = "loading" => calls[await] = "load"
    /\ reply # "none" => pc \in {"loading", "running"}

\* What KWin was asked and holds is gone with it.
GoneWithKwin == ~kwin => calls = <<>> /\ script = "absent"

\* Once KWin has served its first n calls it has no script.
WillBeGone(n) ==
    \/ script = "absent" /\ \A i \in 1..n : calls[i] # "load"
    \/ \E i \in 1..n : calls[i] = "unload" /\ \A j \in (i + 1)..n : calls[j] # "load"

\* An earlier life leaves nothing behind for the load of this one to meet.
CleanStart ==
    /\ unit \in {"inactive", "starting"} => WillBeGone(Len(calls))
    /\ pc \in {"setup", "load"} => WillBeGone(Len(calls))
    /\ pc = "loading" /\ await # 0 => WillBeGone(await - 1)

\* The script is this process's, or KWin restarted and has none.
Own(st) == \/ mine /\ script = st
           \/ ~mine /\ script = "absent"

OwnScript ==
    /\ pc = "loading" /\ reply = "ok" => calls = <<>> /\ Own("loaded")
    /\ pc = "run" => calls = <<>> /\ Own("loaded")
    /\ pc = "running" /\ await # 0 => calls = <<"run">> /\ Own("loaded")
    /\ pc = "running" /\ reply = "ok" => calls = <<>> /\ Own("running")
    /\ pc = "serve" => calls = <<>> /\ Own("running")

IInv == TypeOK /\ Waiting /\ GoneWithKwin /\ CleanStart /\ OwnScript

LEMMA Initially == Init => IInv
  <1> SUFFICES ASSUME Init PROVE IInv
        OBVIOUS
  <1>1. TypeOK
    <2>1. attempt \in 0..LoadRetries /\ faults \in 0..MaxFaults
          BY LifecycleAssumption DEF Init
    <2>2. calls \in Seq({"load", "run", "unload"}) /\ await \in 0..Len(calls)
          BY DEF Init
    <2> QED BY <2>1, <2>2 DEF Init, TypeOK
  <1>2. Waiting /\ GoneWithKwin /\ CleanStart /\ OwnScript
        BY DEF Init, Waiting, GoneWithKwin, CleanStart, WillBeGone, OwnScript
  <1> QED BY <1>1, <1>2 DEF IInv

-----------------------------------------------------------------------------
(***************************************************************************)
(* The process ends: nothing is claimed of the script until ExecStopPost.  *)
(***************************************************************************)
LEMMA ExitStep ==
  ASSUME IInv, NEW b \in BOOLEAN, Exit(b), pc # "off",
         UNCHANGED <<wanted, kwin, script>>, faults' \in 0..MaxFaults,
         calls' \in Seq(CallNames), GoneWithKwin'
  PROVE  IInv'
  <1>1. TypeOK'
    <2>1. attempt' \in 0..LoadRetries
          BY LifecycleAssumption DEF Exit
    <2>2. calls' \in Seq({"load", "run", "unload"}) /\ await' \in 0..Len(calls')
          BY DEF Exit, CallNames
    <2> QED BY <2>1, <2>2 DEF IInv, TypeOK, Exit
  <1>2. Waiting'
        BY DEF IInv, Waiting, Exit
  <1>3. CleanStart' /\ OwnScript'
        BY DEF CleanStart, OwnScript, Exit
  <1> QED BY <1>1, <1>2, <1>3 DEF IInv

LEMMA SendStep ==
  ASSUME IInv, NEW c \in CallNames, Send(c), UNCHANGED <<kwin, script>>
  PROVE  /\ calls' \in Seq(CallNames) /\ Len(calls') >= Len(calls)
         /\ GoneWithKwin'
  BY DEF IInv, TypeOK, GoneWithKwin, Send, CallNames

LEMMA UserStep == ASSUME IInv, User PROVE IInv'
  <1>1. CASE UnitStarted
        BY <1>1 DEF IInv, UnitStarted, proc, TypeOK, Waiting, GoneWithKwin,
                    CleanStart, WillBeGone, OwnScript, Own
  <1>2. CASE UnitStopped
    <2>1. TypeOK'
          BY <1>2 DEF IInv, UnitStopped, TypeOK
    <2> QED BY <1>2, <2>1 DEF IInv, UnitStopped, TypeOK, Waiting, GoneWithKwin,
                    CleanStart, WillBeGone, OwnScript, Own
  <1> QED BY <1>1, <1>2 DEF User

LEMMA SystemdStep == ASSUME IInv, Systemd PROVE IInv'
  <1>1. CASE Spawn
        BY <1>1 DEF IInv, Spawn, TypeOK, Waiting, GoneWithKwin,
                    CleanStart, WillBeGone, OwnScript, Own
  <1>2. CASE StopPost
    <2>1. calls' \in Seq(CallNames) /\ Len(calls') >= Len(calls) /\ GoneWithKwin'
          BY <1>2, SendStep DEF StopPost, CallNames
    <2>2. TypeOK'
          BY <1>2, <2>1 DEF IInv, StopPost, Restart, TypeOK, proc, CallNames
    <2>3. pc' = "off" /\ await' = 0 /\ reply' = "none"
          BY <1>2 DEF IInv, StopPost, proc, Waiting
    <2>4. WillBeGone(Len(calls))'
      <3>1. CASE kwin
            BY <1>2, <3>1 DEF IInv, TypeOK, StopPost, Send, WillBeGone, CallNames
      <3>2. CASE ~kwin
            BY <1>2, <3>2 DEF IInv, TypeOK, StopPost, Send, WillBeGone, GoneWithKwin
      <3> QED BY <3>1, <3>2
    <2>5. unit' # "active"
          BY <1>2 DEF StopPost, Restart
    <2> QED BY <2>1, <2>2, <2>3, <2>4, <2>5 DEF IInv, Waiting, CleanStart, OwnScript
  <1> QED BY <1>1, <1>2 DEF Systemd

LEMMA DaemonStep == ASSUME IInv, Daemon PROVE IInv'
  <1>1. CASE Setup
        BY <1>1 DEF IInv, Setup, TypeOK, Waiting, GoneWithKwin,
                    CleanStart, WillBeGone, OwnScript, Own
  <1>2. CASE LoadSent
    <2>1. /\ calls' = Append(calls, "load") /\ await' = Len(calls')
          /\ calls \in Seq(CallNames)
          BY <1>2 DEF IInv, LoadSent, Call, Send, TypeOK, CallNames
    <2>2. /\ calls' \in Seq(CallNames) /\ await' = Len(calls) + 1
          /\ calls'[await'] = "load"
          /\ \A i \in 1..Len(calls) : calls'[i] = calls[i]
          BY <2>1 DEF CallNames
    <2>3. TypeOK' /\ GoneWithKwin'
          BY <1>2, <2>1, <2>2 DEF IInv, LoadSent, TypeOK, GoneWithKwin, CallNames
    <2>4. Waiting'
          BY <1>2, <2>1, <2>2 DEF IInv, LoadSent, Waiting
    <2>5. WillBeGone(await - 1)'
          BY <1>2, <2>1, <2>2 DEF IInv, LoadSent, CleanStart, WillBeGone
    <2>6. CleanStart'
          BY <1>2, <2>5 DEF IInv, LoadSent, CleanStart, Waiting
    <2>7. OwnScript'
          BY <1>2 DEF IInv, LoadSent, OwnScript, Waiting
    <2> QED BY <2>3, <2>4, <2>6, <2>7 DEF IInv
  <1>3. CASE LoadRetried
        BY <1>3, LifecycleAssumption
           DEF IInv, LoadRetried, TypeOK, Waiting, GoneWithKwin,
                    CleanStart, WillBeGone, OwnScript, Own
  <1>4. CASE LoadGivenUp
        BY <1>4, ExitStep DEF IInv, LoadGivenUp, TypeOK, CallNames, GoneWithKwin, Exit
  <1>5. CASE Loaded
        BY <1>5 DEF IInv, Loaded, TypeOK, Waiting, GoneWithKwin,
                    CleanStart, WillBeGone, OwnScript, Own
  <1>6. CASE LoadFailed
        BY <1>6, ExitStep DEF IInv, LoadFailed, TypeOK, CallNames, GoneWithKwin, Exit
  <1>7. CASE RunSent
    <2>1. calls = <<>> /\ Own("loaded")
          BY <1>7 DEF IInv, RunSent, OwnScript
    <2>2. CASE kwin
      <3>1. calls' = <<"run">> /\ await' = 1 /\ reply' = "none"
            BY <1>7, <2>1, <2>2 DEF RunSent, Call, Send
      <3> QED BY <1>7, <2>1, <2>2, <3>1
                 DEF IInv, RunSent, TypeOK, Waiting, GoneWithKwin, CleanStart,
                     OwnScript, Own
    <2>3. CASE ~kwin
      <3>1. calls' = <<>> /\ await' = 0 /\ reply' = "error"
            BY <1>7, <2>1, <2>3 DEF RunSent, Call, Send
      <3> QED BY <1>7, <2>1, <2>3, <3>1
                 DEF IInv, RunSent, TypeOK, Waiting, GoneWithKwin, CleanStart,
                     OwnScript, Own
    <2> QED BY <2>2, <2>3
  <1>8. CASE Served
        BY <1>8 DEF IInv, Served, TypeOK, Waiting, GoneWithKwin,
                    CleanStart, WillBeGone, OwnScript, Own
  <1>9. CASE RunFailed
        BY <1>9, ExitStep, SendStep DEF IInv, RunFailed, TypeOK, CallNames, Exit
  <1>10. CASE Signalled
        BY <1>10 DEF IInv, Signalled, TypeOK, Waiting, GoneWithKwin,
                    CleanStart, WillBeGone, OwnScript, Own
  <1>11. CASE Shutdown
        BY <1>11, ExitStep, SendStep DEF IInv, Shutdown, TypeOK, CallNames, Exit
  <1> QED BY <1>1, <1>2, <1>3, <1>4, <1>5, <1>6, <1>7, <1>8, <1>9, <1>10, <1>11
             DEF Daemon

LEMMA FaultStep == ASSUME IInv, Faults PROVE IInv'
  <1>0. Fault => faults' \in 0..MaxFaults
        BY LifecycleAssumption DEF Fault, IInv, TypeOK
  <1>1. CASE Crash
        BY <1>0, <1>1, ExitStep DEF IInv, Crash, TypeOK, CallNames, GoneWithKwin, Exit
  <1>2. CASE SetupFails
        BY <1>0, <1>2, ExitStep
           DEF IInv, SetupFails, TypeOK, CallNames, GoneWithKwin, Exit
  <1>3. CASE CallTimesOut
        BY <1>0, <1>3 DEF IInv, CallTimesOut, proc, TypeOK, Waiting, GoneWithKwin,
                    CleanStart, WillBeGone, OwnScript, Own
  <1>4. CASE NameLost
        BY <1>0, <1>4 DEF IInv, NameLost, TypeOK, Waiting, GoneWithKwin,
                    CleanStart, WillBeGone, OwnScript, Own
  <1>5. CASE KwinDies
    <2>1. TypeOK'
      <3>1. calls' \in Seq({"load", "run", "unload"}) /\ await' \in 0..Len(calls')
            BY <1>5 DEF KwinDies
      <3> QED BY <1>0, <1>5, <3>1 DEF IInv, KwinDies, proc, TypeOK
    <2>2. Waiting' /\ GoneWithKwin'
          BY <1>5 DEF IInv, KwinDies, proc, Waiting, GoneWithKwin
    <2>3. CleanStart' /\ OwnScript'
          BY <1>5 DEF IInv, KwinDies, proc, CleanStart, WillBeGone, OwnScript, Own,
                      Waiting
    <2> QED BY <2>1, <2>2, <2>3 DEF IInv
  <1> QED BY <1>1, <1>2, <1>3, <1>4, <1>5 DEF Faults

-----------------------------------------------------------------------------
(***************************************************************************)
(* KWin serves its first call: what the calls will leave is left to one    *)
(* call less.                                                              *)
(***************************************************************************)
LEMMA ServedCalls ==
  ASSUME IInv, KwinServes
  PROVE  /\ calls' \in Seq(CallNames) /\ Len(calls') = Len(calls) - 1
         /\ \A i \in 1..Len(calls') : calls'[i] = calls[i + 1]
         /\ Head(calls) = calls[1] /\ Len(calls) > 0
  BY DEF IInv, TypeOK, KwinServes, CallNames

LEMMA GoneSooner ==
  ASSUME IInv, KwinServes, NEW n \in 1..Len(calls), WillBeGone(n)
  PROVE  WillBeGone(n - 1)'
  <1>1. CASE script = "absent" /\ \A i \in 1..n : calls[i] # "load"
    <2>1. calls[1] # "load"
          BY <1>1
    <2>2. script' = "absent"
          BY <1>1, <2>1, ServedCalls DEF KwinServes, KwinLoads, KwinRuns, KwinUnloads
    <2> QED BY <1>1, <2>2, ServedCalls DEF WillBeGone
  <1>2. ASSUME NEW i \in 1..n, calls[i] = "unload",
               \A j \in (i + 1)..n : calls[j] # "load"
        PROVE  WillBeGone(n - 1)'
    <2>1. CASE i = 1
      <3>1. script' = "absent"
            BY <1>2, <2>1, ServedCalls DEF KwinServes, KwinLoads, KwinRuns, KwinUnloads
      <3> QED BY <1>2, <2>1, <3>1, ServedCalls DEF WillBeGone
    <2>2. CASE i # 1
      <3>1. /\ i - 1 \in 1..(n - 1) /\ calls'[i - 1] = "unload"
            /\ \A j \in i..(n - 1) : calls'[j] # "load"
            BY <1>2, <2>2, ServedCalls
      <3> QED BY <3>1 DEF WillBeGone
    <2> QED BY <2>1, <2>2
  <1> QED BY <1>1, <1>2 DEF WillBeGone

LEMMA KwinStep == ASSUME IInv, KwinServes PROVE IInv'
  <1>0. /\ UNCHANGED <<unit, wanted, failure, pc, attempt, sigterm, event_, owns,
                       kwin, faults>>
        /\ await' = (IF await = 0 THEN 0 ELSE await - 1)
        /\ reply' \in {"none", "ok", "error"}
        /\ await # 1 => reply' = reply
        BY DEF IInv, TypeOK, KwinServes, KwinLoads, KwinRuns, KwinUnloads, Answer, proc
  <1>1. script' \in {"absent", "loaded", "running"} /\ mine' \in BOOLEAN
        BY DEF IInv, TypeOK, KwinServes, KwinLoads, KwinRuns, KwinUnloads
  <1>2. TypeOK'
        BY <1>0, <1>1, ServedCalls DEF IInv, TypeOK, CallNames
  <1>3. Waiting'
        BY <1>0, ServedCalls DEF IInv, TypeOK, Waiting
  <1>4. GoneWithKwin'
        BY <1>0 DEF KwinServes, GoneWithKwin
  <1>5. CleanStart'
    <2>1. WillBeGone(Len(calls)) => WillBeGone(Len(calls))'
          BY GoneSooner, ServedCalls DEF IInv, TypeOK
    <2>2. pc = "loading" /\ await' # 0 => WillBeGone(await - 1)'
      <3> HAVE pc = "loading" /\ await' # 0
      <3>1. await \in 2..Len(calls) /\ WillBeGone(await - 1)
            BY <1>0 DEF IInv, TypeOK, CleanStart
      <3>2. PICK n \in 1..Len(calls) : n = await - 1
            BY <3>1 DEF IInv, TypeOK
      <3>3. WillBeGone(n - 1)'
            BY <3>1, <3>2, GoneSooner
      <3>4. (await - 1)' = n - 1
            BY <3>1, <3>2, <1>0
      <3> QED BY <3>3, <3>4 DEF WillBeGone
    <2> QED BY <1>0, <2>1, <2>2 DEF IInv, CleanStart
  <1>6. OwnScript'
    <2>1. pc \notin {"run", "serve"} /\ ~(pc \in {"loading", "running"} /\ reply = "ok")
          BY DEF IInv, OwnScript, KwinServes
    <2>2. pc = "loading" /\ reply' = "ok" => calls' = <<>> /\ Own("loaded")'
      <3> HAVE pc = "loading" /\ reply' = "ok"
      <3>1. await = 1 /\ Len(calls) = 1 /\ calls[1] = "load"
            BY <1>0, <2>1 DEF IInv, Waiting
      <3>2. script = "absent"
            BY <3>1 DEF IInv, CleanStart, WillBeGone
      <3>3. mine' /\ script' = "loaded"
            BY <3>1, <3>2, ServedCalls DEF KwinServes, KwinLoads, KwinRuns, KwinUnloads
      <3> QED BY <3>1, <3>3, ServedCalls DEF Own
    <2>3. pc = "running" => await' = 0
      <3>1. CASE await = 0
            BY <1>0, <3>1
      <3>2. CASE pc = "running" /\ await # 0
        <4>1. calls = <<"run">> /\ await = Len(calls)
              BY <3>2 DEF IInv, OwnScript, Waiting
        <4>2. await = 1
              BY <4>1
        <4> QED BY <1>0, <4>2
      <3> QED BY <3>1, <3>2
    <2>4. pc = "running" /\ reply' = "ok" => calls' = <<>> /\ Own("running")'
      <3> HAVE pc = "running" /\ reply' = "ok"
      <3>1. await = 1 /\ calls = <<"run">> /\ Own("loaded")
            BY <1>0, <2>1 DEF IInv, OwnScript
      <3>2. mine /\ script = "loaded"
            BY <3>1 DEF KwinServes, KwinLoads, KwinRuns, KwinUnloads, Answer, Own
      <3>3. mine' /\ script' = "running"
            BY <3>1, <3>2 DEF KwinServes, KwinLoads, KwinRuns, KwinUnloads
      <3> QED BY <3>1, <3>3, ServedCalls DEF Own
    <2> QED BY <1>0, <2>1, <2>2, <2>3, <2>4 DEF OwnScript
  <1> QED BY <1>2, <1>3, <1>4, <1>5, <1>6 DEF IInv

LEMMA KwinStartsStep == ASSUME IInv, KwinStarts PROVE IInv'
  BY DEF IInv, KwinStarts, proc, TypeOK, Waiting, GoneWithKwin, CleanStart, WillBeGone,
         OwnScript, Own

LEMMA Invariance == Spec => []IInv
  <1>1. IInv /\ [Next]_vars => IInv'
    <2> SUFFICES ASSUME IInv, [Next]_vars PROVE IInv'
          OBVIOUS
    <2>1. CASE UNCHANGED vars
          BY <2>1 DEF IInv, vars, proc, TypeOK, Waiting, GoneWithKwin, CleanStart,
                      WillBeGone, OwnScript, Own
    <2> QED BY <2>1, UserStep, SystemdStep, DaemonStep, FaultStep, KwinStartsStep,
               KwinStep DEF Next
  <1> QED BY <1>1, Initially, PTL DEF Spec

-----------------------------------------------------------------------------
(***************************************************************************)
(* The type invariant; in particular the attempts to load never exceed     *)
(* KWIN_LOAD_RETRIES (load_script).                                        *)
(***************************************************************************)
THEOREM TypeCorrect == Spec => []TypeOK
  <1>1. IInv => TypeOK
        BY DEF IInv
  <1> QED BY <1>1, Invariance, PTL

(***************************************************************************)
(* Whatever crashed, timed out or was given up: when a stopped unit's      *)
(* calls have been served, KWin has no script (ExecStopPost).              *)
(***************************************************************************)
THEOREM NothingLeftBehind == Spec => []StoppedLeavesNoScript
  <1>1. IInv => StoppedLeavesNoScript
        BY DEF IInv, CleanStart, WillBeGone, StoppedLeavesNoScript
  <1> QED BY <1>1, Invariance, PTL

(***************************************************************************)
(* The script of a serving daemon runs, unless KWin restarted (main.cpp).  *)
(***************************************************************************)
THEOREM ScriptRuns == Spec => []ServedScriptRuns
  <1>1. IInv => ServedScriptRuns
        BY DEF IInv, OwnScript, Own, ServedScriptRuns
  <1> QED BY <1>1, Invariance, PTL

(***************************************************************************)
(* A serving daemon is polled by no script but its own, also if earlier    *)
(* processes left calls that KWin has yet to serve.                        *)
(***************************************************************************)
THEOREM ScriptIsOwn == Spec => []NoForeignScript
  <1>1. IInv => NoForeignScript
        BY DEF IInv, OwnScript, Own, NoForeignScript
  <1> QED BY <1>1, Invariance, PTL
=============================================================================
