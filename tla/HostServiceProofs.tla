--------------------------- MODULE HostServiceProofs ---------------------------
(***************************************************************************)
(* What the pipe lease keeps safe, for any number of chains and restarts:  *)
(* a supervisor inside WSL stays as long as its service, so that wsl.exe   *)
(* has nothing left to run when it ends.                                   *)
(***************************************************************************)
EXTENDS HostService, TLAPS

\* A service has a supervisor, unless that one was killed.
Supervised(i) == Alive(i) => Lin(i) \/ chain[i].lin = "killed"

\* wsl.exe did not end while it ran a supervisor.
Waited(i) == chain[i].wsl = "ended" => ~Lin(i)

IInv == TypeOK /\ \A i \in Chains : Supervised(i) /\ Waited(i)

Chain == [win : Wins, wsl : Wsls, lin : Lins, svc : Svcs]

-----------------------------------------------------------------------------

\* Changing one process of a chain leaves a chain.
LEMMA ChainUpdate ==
  ASSUME NEW c \in Chain
  PROVE  /\ \A w \in Wins : [c EXCEPT !.win = w] \in Chain
         /\ \A w \in Wsls : [c EXCEPT !.wsl = w] \in Chain
         /\ \A l \in Lins : [c EXCEPT !.lin = l] \in Chain
         /\ \A s \in Svcs : [c EXCEPT !.svc = s] \in Chain
  BY DEF Chain

\* The supervision of a chain depends on that chain.
LEMMA OtherChains ==
  ASSUME IInv, NEW j \in Chains, chain'[j] = chain[j]
  PROVE  Supervised(j)' /\ Waited(j)'
  BY DEF IInv, Supervised, Waited, Alive, Lin

\* A step that puts a chain in the place of another keeps the invariant if the
\* new one keeps its part.
LEMMA OneChain ==
  ASSUME IInv, NEW i \in Chains, NEW c \in Chain,
         chain' = [chain EXCEPT ![i] = c],
         pm2' \in {"delay", "online", "stopping", "stopped", "errored"},
         early' \in 0..MaxRestarts,
         c.svc \in {"booting", "serving"} => c.lin \in {"up", "stopping", "killed"},
         c.wsl = "ended" => c.lin \notin {"up", "stopping"}
  PROVE  IInv'
<1>1. chain \in [Chains -> Chain]
  BY DEF IInv, TypeOK, Chain
<1>2. chain' \in [Chains -> Chain] /\ chain'[i] = c
  BY <1>1
<1>3. TypeOK'
  BY <1>2 DEF TypeOK, Chain
<1>4. ASSUME NEW j \in Chains PROVE Supervised(j)' /\ Waited(j)'
  <2>1. CASE j = i
    BY <1>2, <2>1 DEF Supervised, Waited, Alive, Lin
  <2>2. CASE j # i
    <3>1. chain'[j] = chain[j]
      BY <1>1, <2>2
    <3> QED BY <3>1, OtherChains
  <2> QED BY <2>1, <2>2
<1> QED BY <1>3, <1>4 DEF IInv

\* PM2's own steps stay among its states.
LEMMA NoticesType ==
  ASSUME IInv, Notices
  PROVE  pm2' \in {"delay", "online", "stopping", "stopped", "errored"} /\ early' \in 0..MaxRestarts
  BY RestartsAssumption DEF IInv, TypeOK, Notices

-----------------------------------------------------------------------------

\* The invariant holds at the start.
LEMMA InitIInv == Init => IInv
  BY RestartsAssumption DEF Init, IInv, TypeOK, Supervised, Waited, Alive, Lin, NoChain,
                            Wins, Wsls, Lins, Svcs

\* PM2 starting a chain keeps it: nothing runs in it yet.
LEMMA LaunchIInv ==
  ASSUME IInv, NEW i \in Chains, Launch(i)
  PROVE  IInv'
<1>1. PICK w \in {"up", "ended"} :
        chain' = [chain EXCEPT ![i] = [NoChain EXCEPT !.win = "up", !.wsl = w]]
  BY DEF Launch
<1> DEFINE c == [NoChain EXCEPT !.win = "up", !.wsl = w]
<1>2. c \in Chain /\ c.svc = "none" /\ c.lin = "none"
  BY <1>1 DEF Chain, NoChain, Wins, Wsls, Lins, Svcs
<1>3. pm2' = "online" /\ early' \in 0..MaxRestarts
  BY DEF Launch, IInv, TypeOK
<1>4. chain' = [chain EXCEPT ![i] = c]
  BY <1>1
<1> HIDE DEF c
<1> QED BY <1>2, <1>3, <1>4, OneChain

\* So does a step of one process of a chain.
LEMMA ProcessIInv ==
  ASSUME IInv, NEW i \in Chains,
         \/ WinStops(i) \/ WinKills(i) \/ WslEnds(i) \/ WslKilled(i)
         \/ LinStarts(i) \/ LinStops(i) \/ LinSignalled(i) \/ LinKills(i)
         \/ LinExits(i) \/ LinKilled(i) \/ Binds(i) \/ SvcExits(i)
  PROVE  IInv'
<1>1. /\ chain[i] \in Chain /\ chain \in [Chains -> Chain]
      /\ Supervised(i) /\ Waited(i)
  BY DEF IInv, TypeOK, Chain
<1>0. /\ chain[i].svc \in {"booting", "serving"} => chain[i].lin \in {"up", "stopping", "killed"}
      /\ chain[i].wsl = "ended" => chain[i].lin \notin {"up", "stopping"}
  BY <1>1 DEF Supervised, Waited, Alive, Lin
<1>2. ASSUME pm2' = pm2, early' = early
      PROVE  /\ pm2' \in {"delay", "online", "stopping", "stopped", "errored"}
             /\ early' \in 0..MaxRestarts
  BY <1>2 DEF IInv, TypeOK
<1>3. CASE WinStops(i)
  <2> DEFINE c == [chain[i] EXCEPT !.win = "stopping"]
  <2>1. c \in Chain /\ c.svc = chain[i].svc /\ c.lin = chain[i].lin /\ c.wsl = chain[i].wsl
    BY <1>1, ChainUpdate DEF Chain, Wins
  <2>2. chain' = [chain EXCEPT ![i] = c] /\ pm2' = pm2 /\ early' = early
    BY <1>3 DEF WinStops
  <2> HIDE DEF c
  <2> QED BY <1>0, <1>2, <2>1, <2>2, OneChain
<1>4. CASE WinKills(i)
  <2> DEFINE c == [chain[i] EXCEPT !.wsl = "killed"]
  <2>1. c \in Chain /\ c.svc = chain[i].svc /\ c.lin = chain[i].lin /\ c.wsl = "killed"
    BY <1>1, ChainUpdate DEF Chain, Wsls
  <2>2. chain' = [chain EXCEPT ![i] = c] /\ pm2' = pm2 /\ early' = early
    BY <1>4 DEF WinKills
  <2> HIDE DEF c
  <2> QED BY <1>0, <1>2, <2>1, <2>2, OneChain
<1>5. CASE WslEnds(i)
  <2> DEFINE c == [chain[i] EXCEPT !.wsl = "ended"]
  <2>1. c \in Chain /\ c.svc = chain[i].svc /\ c.lin = chain[i].lin /\ c.wsl = "ended"
    BY <1>1, ChainUpdate DEF Chain, Wsls
  <2>2. chain' = [chain EXCEPT ![i] = c] /\ pm2' = pm2 /\ early' = early
    BY <1>5 DEF WslEnds
  <2> HIDE DEF c
  <2> QED BY <1>1, <1>2, <1>5, <2>1, <2>2, OneChain DEF WslEnds, Supervised, Waited, Alive, Lin
<1>6. CASE WslKilled(i)
  <2> DEFINE c == [chain[i] EXCEPT !.wsl = "killed"]
  <2>1. c \in Chain /\ c.svc = chain[i].svc /\ c.lin = chain[i].lin /\ c.wsl = "killed"
    BY <1>1, ChainUpdate DEF Chain, Wsls
  <2>2. chain' = [chain EXCEPT ![i] = c] /\ pm2' = pm2 /\ early' = early
    BY <1>6 DEF WslKilled
  <2> HIDE DEF c
  <2> QED BY <1>0, <1>2, <2>1, <2>2, OneChain
<1>7. CASE LinStops(i)
  <2> DEFINE c == [chain[i] EXCEPT !.lin = "stopping"]
  <2>1. c \in Chain /\ c.svc = chain[i].svc /\ c.wsl = chain[i].wsl /\ c.lin = "stopping"
    BY <1>1, ChainUpdate DEF Chain, Lins
  <2>2. chain' = [chain EXCEPT ![i] = c] /\ pm2' = pm2 /\ early' = early
    BY <1>7 DEF LinStops
  <2> HIDE DEF c
  <2> QED BY <1>1, <1>2, <1>7, <2>1, <2>2, OneChain DEF LinStops, Supervised, Waited, Alive, Lin
<1>8. CASE LinSignalled(i)
  <2> DEFINE c == [chain[i] EXCEPT !.lin = "stopping"]
  <2>1. c \in Chain /\ c.svc = chain[i].svc /\ c.wsl = chain[i].wsl /\ c.lin = "stopping"
    BY <1>1, ChainUpdate DEF Chain, Lins
  <2>2. chain' = [chain EXCEPT ![i] = c] /\ pm2' = pm2 /\ early' = early
    BY <1>8 DEF LinSignalled
  <2> HIDE DEF c
  <2> QED BY <1>1, <1>2, <1>8, <2>1, <2>2, OneChain DEF LinSignalled, Supervised, Waited, Alive, Lin
<1>9. CASE LinKills(i)
  <2> DEFINE c == [chain[i] EXCEPT !.svc = "gone"]
  <2>1. c \in Chain /\ c.lin = chain[i].lin /\ c.wsl = chain[i].wsl /\ c.svc = "gone"
    BY <1>1, ChainUpdate DEF Chain, Svcs
  <2>2. chain' = [chain EXCEPT ![i] = c] /\ pm2' = pm2 /\ early' = early
    BY <1>9 DEF LinKills
  <2> HIDE DEF c
  <2> QED BY <1>1, <1>2, <1>9, <2>1, <2>2, OneChain DEF LinKills, Supervised, Waited, Alive, Lin
<1>10. CASE LinExits(i)
  <2> DEFINE c == [chain[i] EXCEPT !.lin = "gone"]
  <2>1. c \in Chain /\ c.svc = chain[i].svc /\ c.wsl = chain[i].wsl /\ c.lin = "gone"
    BY <1>1, ChainUpdate DEF Chain, Lins
  <2>2. chain' = [chain EXCEPT ![i] = c] /\ pm2' = pm2 /\ early' = early
    BY <1>10 DEF LinExits
  <2> HIDE DEF c
  <2> QED BY <1>1, <1>2, <1>10, <2>1, <2>2, OneChain DEF LinExits, Supervised, Waited, Alive, Lin
<1>11. CASE LinKilled(i)
  <2> DEFINE c == [chain[i] EXCEPT !.lin = "killed"]
  <2>1. c \in Chain /\ c.svc = chain[i].svc /\ c.wsl = chain[i].wsl /\ c.lin = "killed"
    BY <1>1, ChainUpdate DEF Chain, Lins
  <2>2. chain' = [chain EXCEPT ![i] = c] /\ pm2' = pm2 /\ early' = early
    BY <1>11 DEF LinKilled
  <2> HIDE DEF c
  <2> QED BY <1>1, <1>2, <1>11, <2>1, <2>2, OneChain DEF LinKilled, Supervised, Waited, Alive, Lin
<1>12. CASE SvcExits(i)
  <2> DEFINE c == [chain[i] EXCEPT !.svc = "gone"]
  <2>1. c \in Chain /\ c.lin = chain[i].lin /\ c.wsl = chain[i].wsl /\ c.svc = "gone"
    BY <1>1, ChainUpdate DEF Chain, Svcs
  <2>2. chain' = [chain EXCEPT ![i] = c] /\ pm2' = pm2 /\ early' = early
    BY <1>12 DEF SvcExits
  <2> HIDE DEF c
  <2> QED BY <1>1, <1>2, <1>12, <2>1, <2>2, OneChain DEF SvcExits, Supervised, Waited, Alive, Lin
<1>13. CASE LinStarts(i)
  <2>1. CASE chain' = [chain EXCEPT ![i].lin = "up", ![i].svc = "booting"]
    <3> DEFINE c == [chain[i] EXCEPT !.lin = "up", !.svc = "booting"]
    <3>1. c \in Chain /\ c.svc = "booting" /\ c.lin = "up" /\ c.wsl = "up"
      BY <1>1, <1>13 DEF Chain, Lins, Svcs, LinStarts
    <3>2. chain' = [chain EXCEPT ![i] = c] /\ pm2' = pm2 /\ early' = early
      BY <1>13, <1>1, <2>1 DEF LinStarts
    <3> HIDE DEF c
    <3> QED BY <1>2, <3>1, <3>2, OneChain
  <2>2. CASE chain' = [chain EXCEPT ![i].lin = "gone"]
    <3> DEFINE c == [chain[i] EXCEPT !.lin = "gone"]
    <3>1. c \in Chain /\ c.svc = chain[i].svc /\ c.lin = "gone" /\ c.wsl = "up"
      BY <1>1, <1>13, ChainUpdate DEF Chain, Lins, LinStarts
    <3>2. chain' = [chain EXCEPT ![i] = c] /\ pm2' = pm2 /\ early' = early
      BY <1>13, <2>2 DEF LinStarts
    <3>3. ~Alive(i)
      BY <1>1, <1>13 DEF Supervised, LinStarts, Lin
    <3> HIDE DEF c
    <3> QED BY <1>2, <3>1, <3>2, <3>3, OneChain DEF Alive
  <2> QED BY <1>13, <2>1, <2>2 DEF LinStarts
<1>14. CASE Binds(i)
  <2> DEFINE c == [chain[i] EXCEPT !.svc = IF Held THEN "gone" ELSE "serving"]
  <2>1. c \in Chain /\ c.lin = chain[i].lin /\ c.wsl = chain[i].wsl
    BY <1>1, ChainUpdate DEF Chain, Svcs
  <2>2. chain' = [chain EXCEPT ![i] = c] /\ pm2' = pm2 /\ early' = early
    BY <1>14 DEF Binds
  <2>3. chain[i].lin \in {"up", "stopping", "killed"}
    BY <1>1, <1>14 DEF Binds, Supervised, Alive, Lin
  <2> HIDE DEF c
  <2> QED BY <1>1, <1>2, <2>1, <2>2, <2>3, OneChain DEF Waited, Lin
<1> QED BY <1>3, <1>4, <1>5, <1>6, <1>7, <1>8, <1>9, <1>10, <1>11, <1>12, <1>13, <1>14

\* And the end of a supervisor on Windows, of which PM2 makes something.
LEMMA WinEndsIInv ==
  ASSUME IInv, NEW i \in Chains, WinExits(i) \/ WinKilled(i)
  PROVE  IInv'
<1>1. chain[i] \in Chain /\ Supervised(i) /\ Waited(i)
  BY DEF IInv, TypeOK, Chain
<1>2. Notices /\ chain' = [chain EXCEPT ![i].win = "gone"]
  BY DEF WinExits, WinKilled
<1> DEFINE c == [chain[i] EXCEPT !.win = "gone"]
<1>3. c \in Chain /\ c.svc = chain[i].svc /\ c.lin = chain[i].lin /\ c.wsl = chain[i].wsl
  BY <1>1, ChainUpdate DEF Chain, Wins
<1>4. chain' = [chain EXCEPT ![i] = c]
  BY <1>2
<1> HIDE DEF c
<1>5. /\ c.svc \in {"booting", "serving"} => c.lin \in {"up", "stopping", "killed"}
      /\ c.wsl = "ended" => c.lin \notin {"up", "stopping"}
  BY <1>1, <1>3 DEF Supervised, Waited, Alive, Lin
<1> QED BY <1>2, <1>3, <1>4, <1>5, NoticesType, OneChain

\* Every step keeps the invariant.
LEMMA NextIInv == IInv /\ [Next]_vars => IInv'
<1> SUFFICES ASSUME IInv, [Next]_vars PROVE IInv'
  OBVIOUS
<1>1. CASE Stop \/ Resume \/ UNCHANGED vars
  <2>1. /\ UNCHANGED chain
        /\ pm2' \in {"delay", "online", "stopping", "stopped", "errored"}
        /\ early' \in 0..MaxRestarts
    BY <1>1, RestartsAssumption DEF Stop, Resume, vars, IInv, TypeOK
  <2> QED BY <2>1, OtherChains DEF IInv, TypeOK
<1>2. ASSUME NEW i \in Chains, Launch(i) PROVE IInv'
  BY <1>2, LaunchIInv
<1>3. ASSUME NEW i \in Chains, WinExits(i) \/ WinKilled(i) PROVE IInv'
  BY <1>3, WinEndsIInv
<1>4. ASSUME NEW i \in Chains,
         \/ WinStops(i) \/ WinKills(i) \/ WslEnds(i) \/ WslKilled(i)
         \/ LinStarts(i) \/ LinStops(i) \/ LinSignalled(i) \/ LinKills(i)
         \/ LinExits(i) \/ LinKilled(i) \/ Binds(i) \/ SvcExits(i)
      PROVE IInv'
  BY <1>4, ProcessIInv
<1> QED BY <1>1, <1>2, <1>3, <1>4 DEF Next, Supervisors

-----------------------------------------------------------------------------

\* The inductive invariant of the chains (Init, Next): types, a service that runs is
\* supervised unless its supervisor was killed, and wsl.exe waits for what it ran.
THEOREM Invariance == Spec => []IInv
  BY InitIInv, NextIInv, PTL DEF Spec

\* A supervisor on Windows that ended in order leaves no service behind, for any
\* number of chains, restarts and crashes of the others (the exit handler of
\* host-service.mjs ends the supervisor only with its child).
THEOREM PortIsFreed == Spec => []OrderlyStopFreesPort
<1>1. IInv => OrderlyStopFreesPort
  BY DEF IInv, OrderlyStopFreesPort, Supervised, Waited
<1> QED BY <1>1, Invariance, PTL
===============================================================================
