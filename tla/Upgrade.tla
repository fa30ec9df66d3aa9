------------------------------- MODULE Upgrade -------------------------------
(***************************************************************************)
(* The rolling upgrade of docs/serve.md: stop the server, change the       *)
(* binary with kb update --yes, start the server again.  Nothing in the    *)
(* code ties the three together: kb update does not look for a server, a   *)
(* supervisor starts the server again whenever it is down, and the file it *)
(* starts is the one the update moves about.                               *)
(***************************************************************************)
EXTENDS SelfUpdate, Serve

VARIABLE ver    \* the build of the running server, or of the last one

vars == <<target, old, newest, upd, begun, overlap, failures, kills,
          proc, late, hist, req, stops, crashes, ver>>

Init == UpdInit /\ ServeInit /\ ver = target

\* A server can start while its file is there.
StartServer ==
    /\ target # Absent
    /\ Start
    /\ ver' = target
    /\ UNCHANGED updVars

Serving ==
    /\ \/ \E r \in Requests : Send(r) \/ HandlerStep(r)
       \/ CliWrite
       \/ Terminate
       \/ StopStep
       \/ ListenerFails
       \/ Crash
    /\ UNCHANGED <<updVars, ver>>

Updating == UpdNext /\ UNCHANGED <<serveVars, ver>>

Next == StartServer \/ Serving \/ Updating

\* A stop ends by its timers, a supervisor or the operator starts a server that is down,
\* and an update ends by the time limits of its requests.  Handlers are promised nothing:
\* the server sets no time limit on a client that does not finish sending.
Fairness ==
    /\ WF_vars(StartServer)
    /\ WF_vars(StopStep /\ UNCHANGED <<updVars, ver>>)
    /\ WF_vars((\E u \in Updaters : UpdStep(u)) /\ UNCHANGED <<serveVars, ver>>)

Spec == Init /\ [][Next]_vars /\ Fairness

-----------------------------------------------------------------------------
(* Properties *)

\* Both halves, and what a server runs is a build: never a spoilt download.
TypeOK == UpdTypeOK /\ ServeTypeOK /\ ver \in Builds

\* A stop ends, also when a client never finishes its request (shutdownGrace).
StopEnds == proc = "draining" ~> proc = "down"

\* The service always comes back, whether the server stopped, crashed or was upgraded, and
\* at whatever step updates fail or overlap.  Only an update that was killed between its two
\* renames, or whose way back failed or was cleared away, can leave nothing to start (swap).
ServiceReturns ==
    []<>(\/ proc = "up"
         \/ /\ target = Absent
            /\ kills > 0 \/ failures > 1 \/ (overlap /\ failures > 0))

\* No restart goes back to a build older than the one that ran before.
ServesNoOlder ==
    [][ver' = ver \/ ver = Dev \/ overlap \/ CompareVersions(ver', ver) = 1]_vars
=============================================================================
