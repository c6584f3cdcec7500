----------------------------- MODULE HostService -----------------------------
(***************************************************************************)
(* The supervisor of a hosted service (scripts/host-service.mjs), which is *)
(* run twice in a chain: PM2 on Windows runs it, it runs wsl.exe with a    *)
(* pipe for its input, wsl.exe runs it again inside WSL, and there it runs *)
(* the service. PM2 (ecosystem.config.cjs) starts the next chain when the  *)
(* Windows supervisor of the last one is gone, whatever is left of it.     *)
(***************************************************************************)
EXTENDS Naturals

CONSTANTS
  Chains,       \* runs that may overlap (bound)
  MaxRestarts   \* restarts in a row PM2 allows to come too early

ASSUME RestartsAssumption == MaxRestarts \in Nat

VARIABLES
  pm2,      \* what PM2 is at with the service
  early,    \* its restarts in a row that came too early
  chain     \* the four processes of each run

vars == <<pm2, early, chain>>

\* wsl.exe "ended" with what it ran, or was "killed"; a supervisor that was
\* "killed" left its child behind.
Wins == {"none", "up", "stopping", "gone"}
Wsls == {"none", "up", "ended", "killed"}
Lins == {"none", "up", "stopping", "gone", "killed"}
Svcs == {"none", "booting", "serving", "gone"}

NoChain == [win |-> "none", wsl |-> "none", lin |-> "none", svc |-> "none"]

\* The port of the service is with the one that serves.
Held      == \E i \in Chains : chain[i].svc = "serving"
Alive(i)  == chain[i].svc \in {"booting", "serving"}
Lin(i)    == chain[i].lin \in {"up", "stopping"}
Win(i)    == chain[i].win \in {"up", "stopping"}
Unused(i) == ~Alive(i) /\ ~Lin(i) /\ ~Win(i) /\ chain[i].wsl # "up"

\* Loss of wsl.exe or of the Windows supervisor ends the input, as stop() there does.
PipeEnded(i) == chain[i].wsl # "up" \/ chain[i].win # "up"

Init ==
  /\ pm2 = "delay" /\ early = 0
  /\ chain = [i \in Chains |-> NoChain]

-----------------------------------------------------------------------------
(* PM2.                                                                    *)

\* It starts a chain; an unknown role, or a wsl.exe that does not start, ends it at once.
Launch(i) ==
  /\ pm2 = "delay" /\ Unused(i)
  /\ pm2' = "online"
  /\ chain' = [chain EXCEPT ![i] = [NoChain EXCEPT !.win = "up", !.wsl = "up"]]
     \/ chain' = [chain EXCEPT ![i] = [NoChain EXCEPT !.win = "up", !.wsl = "ended"]]
  /\ UNCHANGED early

\* What it makes of the end of the process it started.
Notices ==
  \/ pm2 = "stopping" /\ pm2' = "stopped" /\ UNCHANGED early
  \/ pm2 = "online" /\ pm2' = "delay" /\ early' = 0
  \/ /\ pm2 = "online"
     /\ IF early < MaxRestarts THEN pm2' = "delay" /\ early' = early + 1
                               ELSE pm2' = "errored" /\ UNCHANGED early

\* pm2 stop and restart send the message "shutdown".
Stop   == pm2 = "online" /\ pm2' = "stopping" /\ UNCHANGED <<early, chain>>
Resume == pm2 \in {"stopped", "errored"} /\ pm2' = "delay" /\ early' = 0 /\ UNCHANGED chain

-----------------------------------------------------------------------------
(* The supervisor on Windows.                                              *)

\* The message, or a signal: it ends the pipe. A second one does nothing.
WinStops(i) ==
  /\ chain[i].win = "up"
  /\ chain' = [chain EXCEPT ![i].win = "stopping"]
  /\ UNCHANGED <<pm2, early>>

\* wsl.exe is given 8 s.
WinKills(i) ==
  /\ chain[i].win = "stopping" /\ chain[i].wsl = "up"
  /\ chain' = [chain EXCEPT ![i].wsl = "killed"]
  /\ UNCHANGED <<pm2, early>>

WinExits(i) ==
  /\ Win(i) /\ chain[i].wsl # "up"
  /\ chain' = [chain EXCEPT ![i].win = "gone"]
  /\ Notices

\* A crash, or PM2 after 12 s.
WinKilled(i) ==
  /\ Win(i)
  /\ chain' = [chain EXCEPT ![i].win = "gone"]
  /\ Notices

-----------------------------------------------------------------------------
(* wsl.exe.                                                                *)

\* It ends with what it ran, or does not get to run it.
WslEnds(i) ==
  /\ chain[i].wsl = "up" /\ ~Lin(i)
  /\ chain' = [chain EXCEPT ![i].wsl = "ended"]
  /\ UNCHANGED <<pm2, early>>

WslKilled(i) ==
  /\ chain[i].wsl = "up"
  /\ chain' = [chain EXCEPT ![i].wsl = "killed"]
  /\ UNCHANGED <<pm2, early>>

-----------------------------------------------------------------------------
(* The supervisor inside WSL.                                              *)

\* The service is started, or cannot be.
LinStarts(i) ==
  /\ chain[i].wsl = "up" /\ chain[i].lin = "none"
  /\ \/ chain' = [chain EXCEPT ![i].lin = "up", ![i].svc = "booting"]
     \/ chain' = [chain EXCEPT ![i].lin = "gone"]
  /\ UNCHANGED <<pm2, early>>

\* Slip: stop() exits.
SlipExitsOnStop(i) ==
  /\ chain[i].lin = "up"
  /\ PipeEnded(i)
  /\ chain' = [chain EXCEPT ![i].lin = "gone"]
  /\ UNCHANGED <<pm2, early>>

\* The end of the input: SIGTERM to the service, once.
LinStops(i) ==
  /\ chain[i].lin = "up"
  /\ PipeEnded(i)
  /\ chain' = [chain EXCEPT ![i].lin = "stopping"]
  /\ UNCHANGED <<pm2, early>>

\* A signal does the same.
LinSignalled(i) ==
  /\ chain[i].lin = "up"
  /\ chain' = [chain EXCEPT ![i].lin = "stopping"]
  /\ UNCHANGED <<pm2, early>>

\* Slip: no timer, SIGTERM is enough.
SlipNoTimer(i) == FALSE /\ UNCHANGED vars

\* The service is given 8 s.
LinKills(i) ==
  /\ chain[i].lin = "stopping" /\ Alive(i)
  /\ chain' = [chain EXCEPT ![i].svc = "gone"]
  /\ UNCHANGED <<pm2, early>>

\* It ends with the service.
LinExits(i) ==
  /\ Lin(i) /\ ~Alive(i)
  /\ chain' = [chain EXCEPT ![i].lin = "gone"]
  /\ UNCHANGED <<pm2, early>>

\* A crash or a SIGKILL.
LinKilled(i) ==
  /\ Lin(i)
  /\ chain' = [chain EXCEPT ![i].lin = "killed"]
  /\ UNCHANGED <<pm2, early>>

-----------------------------------------------------------------------------
(* The service.                                                            *)

\* It listens, or ends because the port is taken.
Binds(i) ==
  /\ chain[i].svc = "booting"
  /\ chain' = [chain EXCEPT ![i].svc = IF Held THEN "gone" ELSE "serving"]
  /\ UNCHANGED <<pm2, early>>

\* It obeys SIGTERM, or ends on its own.
SvcExits(i) ==
  /\ Alive(i)
  /\ chain' = [chain EXCEPT ![i].svc = "gone"]
  /\ UNCHANGED <<pm2, early>>

-----------------------------------------------------------------------------

Supervisors(i) ==
  \/ WinKills(i) \/ WinExits(i) \/ WslEnds(i)
  \/ LinStops(i) \/ LinKills(i) \/ LinExits(i)

Next ==
  \/ Stop \/ Resume
  \/ \E i \in Chains :
       \/ Launch(i) \/ WinStops(i) \/ WinKilled(i) \/ WslKilled(i)
       \/ LinStarts(i) \/ LinSignalled(i) \/ LinKilled(i) \/ Binds(i) \/ SvcExits(i)
       \/ Supervisors(i)

Spec == Init /\ [][Next]_vars

(***************************************************************************)
(* The end of the input is delivered, and the 8 s pass. Nothing else has   *)
(* to happen: not that the service obeys SIGTERM, nor that PM2 goes on.    *)
(***************************************************************************)
Fairness == \A i \in Chains : WF_vars(LinStops(i)) /\ WF_vars(LinKills(i))
FairSpec == Spec /\ Fairness
-----------------------------------------------------------------------------
(* Properties.                                                             *)

\* Types of the variables.
TypeOK ==
  /\ pm2 \in {"delay", "online", "stopping", "stopped", "errored"}
  /\ early \in 0..MaxRestarts
  /\ chain \in [Chains -> [win : Wins, wsl : Wsls, lin : Lins, svc : Svcs]]

\* A supervisor on Windows that ended because wsl.exe did, without a process
\* killed on the way, leaves no service on the port the next one binds.
OrderlyStopFreesPort ==
  \A i \in Chains :
    chain[i].win = "gone" /\ chain[i].wsl = "ended" /\ chain[i].lin # "killed" => ~Alive(i)

\* However the supervisor on Windows is lost, and whatever the service does with
\* SIGTERM, the service ends, unless the supervisor next to it was killed (the
\* pipe lease).
NoOrphan ==
  \A i \in Chains :
    chain[i].win = "gone" ~> ~Alive(i) \/ chain[i].lin = "killed"
===============================================================================
