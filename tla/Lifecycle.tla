----------------------------- MODULE Lifecycle -----------------------------
(***************************************************************************)
(* The life of the daemon process (main.cpp, dbus_service.cpp,             *)
(* kwin_client.cpp) under its systemd unit, and of the script it loads     *)
(* into KWin.                                                              *)
(*                                                                         *)
(* KWin answers D-Bus calls one at a time in the order the bus delivered   *)
(* them ("calls"), perhaps after the caller gave up.  A call to KWin while *)
(* it is down fails at once.                                               *)
(***************************************************************************)
EXTENDS Integers, Sequences

CONSTANTS
    LoadRetries,    \* KWIN_LOAD_RETRIES
    MaxFaults,      \* bound: crashes, time-outs, failures and name losses
    MaxBacklog      \* bound: calls KWin may owe when the user starts the unit

ASSUME LifecycleAssumption ==
    LoadRetries \in Nat /\ MaxFaults \in Nat /\ MaxBacklog \in Nat

VARIABLES
    unit,       \* "inactive", "starting", "active" or "stoppost"
    wanted,     \* the user, or the session, has started the unit
    pc,         \* the daemon: "off", "setup", "load", "loading", "run",
                \* "running" (waiting for Script.run), "serve", "unload"
    attempt,    \* failed loadScript attempts so far
    failure,    \* the last process ended with a failure (Restart=on-failure)
    sigterm,    \* SIGTERM is pending (blocked until the loop runs)
    event_,     \* DbusService::event_ is set, the bus is on the loop
    owns,       \* the daemon owns its D-Bus name
    kwin,       \* KWin is up
    calls,      \* KWin's unanswered calls
    script,     \* in KWin: "absent", "loaded" or "running"
    await,      \* the place in calls of the one the daemon waits for, or 0
    reply,      \* the answer for the daemon: "none", "ok" or "error"
    mine,       \* the script that KWin has or had last is this process's
    faults

proc == <<pc, attempt, sigterm, event_, owns>>
vars == <<unit, wanted, failure, proc, kwin, calls, script, await, reply, mine, faults>>

Init ==
    /\ unit = "inactive" /\ wanted = FALSE /\ failure = FALSE
    /\ pc = "off" /\ attempt = 0 /\ sigterm = FALSE
    /\ event_ = FALSE /\ owns = FALSE
    /\ kwin \in BOOLEAN
    /\ calls = <<>> /\ script = "absent" /\ mine = FALSE
    /\ await = 0 /\ reply = "none"
    /\ faults = 0

Fault == faults < MaxFaults /\ faults' = faults + 1

\* A message for KWin: lost when nobody owns its name.
Send(call) == calls' = IF kwin THEN Append(calls, call) ELSE calls

\* sd_bus_call_method: send and wait for the answer to this very message.
Call(call) == Send(call) /\ await' = Len(calls')

\* The process ends; the kernel and the bus release what it held.
Exit(failed) ==
    /\ pc' = "off" /\ unit' = "stoppost" /\ failure' = failed
    /\ attempt' = 0 /\ sigterm' = FALSE /\ event_' = FALSE /\ owns' = FALSE
    /\ await' = 0 /\ reply' = "none" /\ mine' = FALSE

-----------------------------------------------------------------------------
(***************************************************************************)
(* systemd.                                                                *)
(***************************************************************************)
UnitStarted ==
    /\ unit = "inactive" /\ ~wanted /\ Len(calls) <= MaxBacklog
    /\ wanted' = TRUE /\ unit' = "starting"
    /\ UNCHANGED <<failure, proc, kwin, calls, script, await, reply, mine, faults>>

UnitStopped ==
    /\ wanted
    /\ wanted' = FALSE
    /\ sigterm' = (unit = "active")
    /\ unit' = IF unit = "starting" THEN "inactive" ELSE unit
    /\ UNCHANGED <<failure, pc, attempt, event_, owns, kwin, calls, script,
                   await, reply, mine, faults>>

\* ExecStart.
Spawn ==
    /\ unit = "starting"
    /\ unit' = "active" /\ pc' = "setup"
    /\ UNCHANGED <<wanted, failure, attempt, sigterm, event_, owns, kwin, calls,
                   script, await, reply, mine, faults>>

Restart == unit' = IF wanted /\ failure THEN "starting" ELSE "inactive"

PostSkipped ==
    /\ unit = "stoppost"
    /\ Restart
    /\ UNCHANGED <<wanted, failure, proc, kwin, calls, script, await, reply, mine,
                   faults>>

\* ExecStopPost, kwinscript-unload.sh; then Restart=on-failure.
StopPost ==
    /\ unit = "stoppost"
    /\ Send("unload")
    /\ Restart
    /\ UNCHANGED <<wanted, failure, proc, kwin, script, await, reply, mine, faults>>

\* SIGKILL or a crash at any point.
Crash ==
    /\ pc # "off" /\ Fault
    /\ Exit(TRUE)
    /\ UNCHANGED <<wanted, kwin, calls, script>>

-----------------------------------------------------------------------------
(***************************************************************************)
(* main().                                                                 *)
(***************************************************************************)
\* open, request_name, attach, server.start, stage_kwinscript.
Setup ==
    /\ pc = "setup"
    /\ pc' = "load" /\ event_' = TRUE /\ owns' = TRUE
    /\ UNCHANGED <<unit, wanted, failure, attempt, sigterm, kwin, calls, script,
                   await, reply, mine, faults>>

SetupFails ==
    /\ pc = "setup" /\ Fault
    /\ Exit(TRUE)
    /\ UNCHANGED <<wanted, kwin, calls, script>>

LoadSent ==
    /\ pc = "load" /\ kwin
    /\ Call("load")
    /\ pc' = "loading"
    /\ UNCHANGED <<unit, wanted, failure, attempt, sigterm, event_, owns, kwin,
                   script, reply, mine, faults>>

RetriesOnceMore ==
    /\ pc = "load" /\ ~kwin /\ attempt <= LoadRetries
    /\ attempt' = attempt + 1
    /\ UNCHANGED <<unit, wanted, failure, pc, sigterm, event_, owns, kwin, calls,
                   script, await, reply, mine, faults>>

\* NameHasNoOwner or ServiceUnknown: wait and retry.
LoadRetried ==
    /\ pc = "load" /\ ~kwin /\ attempt < LoadRetries
    /\ attempt' = attempt + 1
    /\ UNCHANGED <<unit, wanted, failure, pc, sigterm, event_, owns, kwin, calls,
                   script, await, reply, mine, faults>>

GivesUpCleanly ==
    /\ pc = "load" /\ ~kwin /\ attempt = LoadRetries
    /\ Exit(FALSE)
    /\ UNCHANGED <<wanted, kwin, calls, script, faults>>

LoadGivenUp ==
    /\ pc = "load" /\ ~kwin /\ attempt = LoadRetries
    /\ Exit(TRUE)
    /\ UNCHANGED <<wanted, kwin, calls, script, faults>>

Loaded ==
    /\ pc = "loading" /\ reply = "ok"
    /\ pc' = "run" /\ reply' = "none"
    /\ UNCHANGED <<unit, wanted, failure, attempt, sigterm, event_, owns, kwin,
                   calls, script, await, mine, faults>>

LoadedAnyway ==
    /\ pc = "loading" /\ reply = "error"
    /\ pc' = "run" /\ reply' = "none"
    /\ UNCHANGED <<unit, wanted, failure, attempt, sigterm, event_, owns, kwin,
                   calls, script, await, mine, faults>>

\* Any other error, the id -1 of a plugin that is loaded already included.
LoadFailed ==
    /\ pc = "loading" /\ reply = "error"
    /\ Exit(TRUE)
    /\ UNCHANGED <<wanted, kwin, calls, script, faults>>

RunSent ==
    /\ pc = "run"
    /\ Call("run")
    /\ reply' = IF kwin THEN "none" ELSE "error"
    /\ pc' = "running"
    /\ UNCHANGED <<unit, wanted, failure, attempt, sigterm, event_, owns, kwin,
                   script, mine, faults>>

Served ==
    /\ pc = "running" /\ reply = "ok"
    /\ pc' = "serve" /\ reply' = "none"
    /\ UNCHANGED <<unit, wanted, failure, attempt, sigterm, event_, owns, kwin,
                   calls, script, await, mine, faults>>

RunErrorIgnored ==
    /\ pc = "running" /\ reply = "error"
    /\ pc' = "serve" /\ reply' = "none"
    /\ UNCHANGED <<unit, wanted, failure, attempt, sigterm, event_, owns, kwin,
                   calls, script, await, mine, faults>>

\* Script.run failed: unload and give up.
RunFailed ==
    /\ pc = "running" /\ reply = "error"
    /\ Send("unload")
    /\ Exit(TRUE)
    /\ UNCHANGED <<wanted, kwin, script, faults>>

\* The caller's time-out; KWin will still serve the call.
CallTimesOut ==
    /\ await # 0 /\ Fault
    /\ await' = 0 /\ reply' = "error"
    /\ UNCHANGED <<unit, wanted, failure, proc, kwin, calls, script, mine>>

(***************************************************************************)
(* on_name_lost.  detach() clears event_ before sd_event_exit is given it, *)
(* so the call is sd_event_exit(NULL, 1), which only returns -EINVAL.      *)
(***************************************************************************)
NameLost ==
    /\ pc = "serve" /\ owns /\ event_ /\ Fault
    /\ owns' = FALSE
    /\ event_' = FALSE
    /\ UNCHANGED <<unit, wanted, failure, pc, attempt, sigterm, kwin, calls,
                   script, await, reply, mine>>

DeafWhenDetached ==
    /\ pc = "serve" /\ sigterm /\ event_
    /\ pc' = "unload"
    /\ UNCHANGED <<unit, wanted, failure, attempt, sigterm, event_, owns, kwin,
                   calls, script, await, reply, mine, faults>>

\* on_signal: sd_event_exit(event, 0).
Signalled ==
    /\ pc = "serve" /\ sigterm
    /\ pc' = "unload"
    /\ UNCHANGED <<unit, wanted, failure, attempt, sigterm, event_, owns, kwin,
                   calls, script, await, reply, mine, faults>>

\* unload_script sends and does not wait.
Shutdown ==
    /\ pc = "unload"
    /\ Send("unload")
    /\ Exit(FALSE)
    /\ UNCHANGED <<wanted, kwin, script, faults>>

-----------------------------------------------------------------------------
(***************************************************************************)
(* KWin.                                                                   *)
(***************************************************************************)
KwinStarts ==
    /\ ~kwin
    /\ kwin' = TRUE
    /\ UNCHANGED <<unit, wanted, failure, proc, calls, script, await, reply, mine,
                   faults>>

\* The script dies with KWin; a waiting caller gets NoReply.
KwinDies ==
    /\ kwin /\ Fault
    /\ kwin' = FALSE
    /\ calls' = <<>> /\ script' = "absent" /\ mine' = FALSE
    /\ reply' = IF await # 0 THEN "error" ELSE reply
    /\ await' = 0
    /\ UNCHANGED <<unit, wanted, failure, proc>>

\* The answer to the first call, for the daemon if it waits for that one.
Answer(ok) ==
    /\ reply' = IF await = 1 THEN (IF ok THEN "ok" ELSE "error") ELSE reply
    /\ await' = IF await = 0 THEN 0 ELSE await - 1

\* Scripting.loadScript answers -1 for a plugin that is loaded already.
KwinLoads ==
    /\ Head(calls) = "load"
    /\ script' = IF script = "absent" THEN "loaded" ELSE script
    /\ mine' = IF script = "absent" THEN await = 1 ELSE mine
    /\ Answer(script = "absent")

\* The object of the script is gone once it is unloaded.
KwinRuns ==
    /\ Head(calls) = "run"
    /\ script' = IF script = "absent" THEN "absent" ELSE "running"
    /\ UNCHANGED mine
    /\ Answer(script # "absent")

KwinUnloads ==
    /\ Head(calls) = "unload"
    /\ script' = "absent" /\ UNCHANGED mine
    /\ Answer(TRUE)

KwinServes ==
    /\ kwin /\ calls # <<>>
    /\ calls' = Tail(calls)
    /\ KwinLoads \/ KwinRuns \/ KwinUnloads
    /\ UNCHANGED <<unit, wanted, failure, proc, kwin, faults>>

-----------------------------------------------------------------------------
Systemd == Spawn \/ StopPost

Daemon ==
    \/ Setup \/ LoadSent \/ LoadRetried \/ LoadGivenUp \/ Loaded \/ LoadFailed
    \/ RunSent \/ Served \/ RunFailed \/ Signalled \/ Shutdown

Faults == Crash \/ SetupFails \/ CallTimesOut \/ NameLost \/ KwinDies

User == UnitStarted \/ UnitStopped

Next == User \/ Systemd \/ Daemon \/ Faults \/ KwinStarts \/ KwinServes

Spec == Init /\ [][Next]_vars

(***************************************************************************)
(* systemd acts on the unit, the process runs, and the desktop session     *)
(* brings KWin back and KWin serves its calls.  Nothing is assumed of      *)
(* faults or of the user.                                                  *)
(***************************************************************************)
FairSpec ==
    /\ Spec
    /\ WF_vars(Systemd) /\ WF_vars(Daemon)
    /\ WF_vars(KwinStarts) /\ WF_vars(KwinServes)

-----------------------------------------------------------------------------
TypeOK ==
    /\ unit \in {"inactive", "starting", "active", "stoppost"}
    /\ pc \in {"off", "setup", "load", "loading", "run", "running", "serve",
               "unload"}
    /\ wanted \in BOOLEAN /\ failure \in BOOLEAN /\ sigterm \in BOOLEAN
    /\ event_ \in BOOLEAN /\ owns \in BOOLEAN /\ kwin \in BOOLEAN
    /\ mine \in BOOLEAN
    /\ attempt \in 0..LoadRetries
    /\ calls \in Seq({"load", "run", "unload"})
    /\ script \in {"absent", "loaded", "running"}
    /\ await \in 0..Len(calls)
    /\ reply \in {"none", "ok", "error"}
    /\ faults \in 0..MaxFaults

(***************************************************************************)
(* A stopped unit leaves no script behind: once KWin has served the calls  *)
(* that are under way, the script is unloaded, whatever crashed or timed   *)
(* out on the way.                                                         *)
(***************************************************************************)
StoppedLeavesNoScript ==
    unit = "inactive" /\ calls = <<>> => script = "absent"

(***************************************************************************)
(* A serving daemon has its script running in KWin, unless KWin itself     *)
(* restarted: no unload of an earlier life of the daemon is served after   *)
(* this life's load.                                                       *)
(***************************************************************************)
ServedScriptRuns == pc = "serve" /\ mine => script = "running"

(***************************************************************************)
(* A serving daemon is never polled by a script that an earlier process    *)
(* loaded.  Client ids start at 1 in every process, and onClientConnected  *)
(* (clients.ts) would take client 1 for the client 1 it knew, whose tokens *)
(* and watches it still holds.                                             *)
(***************************************************************************)
NoForeignScript == pc = "serve" /\ script # "absent" => mine

(***************************************************************************)
(* Whatever fails, the unit comes to serve again or is stopped: no failure *)
(* of main() ends in an exit systemd would not restart, or in a loop of    *)
(* restarts that find the script of an earlier life still loaded.          *)
(***************************************************************************)
ServesOrStops == []<>(pc = "serve" \/ ~wanted)

(***************************************************************************)
(* A unit that is stopped stops, also if it no longer owns its name.       *)
(***************************************************************************)
StopStops == ~wanted ~> unit = "inactive"

(***************************************************************************)
(* dbus_service.cpp:63: "If the name is later lost (stolen / bus restart), *)
(* shut down."                                                             *)
(***************************************************************************)
NameLostShutsDown == (pc = "serve" /\ ~owns) ~> pc # "serve"
=============================================================================
