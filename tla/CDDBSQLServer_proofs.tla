------------------------ MODULE CDDBSQLServer_proofs ------------------------
(***************************************************************************)
(* Proofs about CDDBSQLServer, for any number of sessions.  What the       *)
(* properties need besides themselves is in Owned: a statement that is     *)
(* between its first step and its reset is the one that the holder of the  *)
(* mutex is working on; and in LockHasReader: the connection holds its     *)
(* lock for a statement that runs.                                         *)
(*                                                                         *)
(* And about ASIOServer, which it is derived from, for any number of       *)
(* clients.  LifeInv ties the state of the object to where its owner is in *)
(* unwinding it, and what is left of the listeners to the owner's haste.   *)
(***************************************************************************)
EXTENDS CDDBSQLServer, ASIOServer, TLAPS

InLookup(s) == pc[s] \in {"lock", "bind", "rows"}

Owned ==
    \A l \in Lookups : stmt[l] \in {"row", "done"} =>
            \E s \in Sessions : mutex = s /\ pc[s] = "rows" /\ op[s] = l

Greeted ==
    \A s \in Sessions : InLookup(s) \/ reply[s] = "data" => par[s].handshake

LockHasReader == shared => \E l \in Lookups : stmt[l] \in Running

Inv == TypeOK /\ OneLookupAtATime /\ Owned /\ Greeted /\ LockHasReader

LEMMA InitInv == Init => Inv
<1> SUFFICES ASSUME Init PROVE Inv
    OBVIOUS
<1>1. TypeOK
    BY DEF Init, TypeOK, Lookups, NewParameters
<1>2. OneLookupAtATime /\ Owned /\ Greeted /\ LockHasReader
    BY ConstantsAssumption
    DEF Init, OneLookupAtATime, Owned, Greeted, InLookup, LockHasReader, Lookups
<1> QED  BY <1>1, <1>2 DEF Inv

\* The parameters after a command are parameters again, and keep a handshake.
LEMMA AfterType ==
    ASSUME NEW p \in [handshake : BOOLEAN, terminate : BOOLEAN, is_http : BOOLEAN],
           NEW cmd
    PROVE  /\ After(p, cmd) \in [handshake : BOOLEAN, terminate : BOOLEAN, is_http : BOOLEAN]
           /\ p.handshake => After(p, cmd).handshake
<1>1. Ends(p, cmd) \in BOOLEAN
    BY DEF Ends
<1>2. (cmd = "hello") \in BOOLEAN
    OBVIOUS
<1> QED  BY <1>1, <1>2 DEF After

\* A request line leaves the lookups of others alone, and starts one only
\* after a handshake.
LEMMA CddbRequestInv ==
    ASSUME Inv, NEW s \in Sessions, pc[s] = "getline",
           NEW p \in [handshake : BOOLEAN, terminate : BOOLEAN, is_http : BOOLEAN],
           NEW cmd, par[s].handshake => p.handshake,
           CddbRequest(s, p, cmd), UNCHANGED <<found, mutex, stmt, shared, writer>>
    PROVE  Inv'
<1>1. CASE IsLookup(p, cmd)
    <2>1. p.handshake
        BY <1>1 DEF IsLookup, Refused
    <2>2. /\ pc' = [pc EXCEPT ![s] = "lock"]
          /\ par' = [par EXCEPT ![s] = p]
          /\ reply' = [reply EXCEPT ![s] = "none"]
          /\ op' = [op EXCEPT ![s] = IF cmd = "query" THEN "exact" ELSE "read"]
        BY <1>1 DEF CddbRequest, IsLookup, Throws
    <2>3. TypeOK'
        BY <2>2 DEF Inv, TypeOK, Lookups
    <2>4. OneLookupAtATime'
        BY <2>2 DEF Inv, TypeOK, OneLookupAtATime
    <2>5. Owned'
        BY <2>2 DEF Inv, TypeOK, Owned, Lookups
    <2>6. Greeted'
        BY <2>1, <2>2 DEF Inv, TypeOK, Greeted, InLookup
    <2>7. LockHasReader'
        BY <2>2 DEF Inv, LockHasReader
    <2> QED  BY <2>3, <2>4, <2>5, <2>6, <2>7 DEF Inv
<1>2. CASE ~IsLookup(p, cmd) /\ ~Throws(p, cmd)
    <2> DEFINE q == After(p, cmd)
    <2>1. /\ q \in [handshake : BOOLEAN, terminate : BOOLEAN, is_http : BOOLEAN]
          /\ NextLine(q) \in {"closed", "getline"}
        BY AfterType DEF NextLine
    <2>2. /\ pc' = [pc EXCEPT ![s] = NextLine(q)]
          /\ par' = [par EXCEPT ![s] = q]
          /\ reply' = [reply EXCEPT ![s] = "code"]
          /\ op' = op
        BY <1>2 DEF CddbRequest
    <2> HIDE DEF q
    <2> QED  BY <2>1, <2>2
             DEF Inv, TypeOK, OneLookupAtATime, Owned, Greeted, InLookup, Lookups, LockHasReader, Running
<1>3. CASE Throws(p, cmd) /\ ~IsLookup(p, cmd)
    BY <1>3 DEF CddbRequest, Inv, TypeOK, OneLookupAtATime, Owned, Greeted, InLookup, Lookups, LockHasReader, Running
<1> QED  BY <1>1, <1>2, <1>3

LEMMA ThrowInv ==
    ASSUME Inv, NEW s \in Sessions, pc[s] \in {"bind", "rows"},
           NEW state \in {"stuck", "refused", "failed", "ready"},
           Throw(s, state), shared' \in BOOLEAN, LockHasReader'
    PROVE  Inv'
<1>1. mutex = s
    BY DEF Inv, OneLookupAtATime
<1>2. \A t \in Sessions : t # s => pc[t] \notin {"bind", "rows"}
    BY <1>1 DEF Inv, OneLookupAtATime
<1>3. TypeOK'
    BY DEF Throw, Inv, TypeOK, Lookups, Running
<1>4. OneLookupAtATime'
    BY <1>1, <1>2, ConstantsAssumption DEF Throw, Inv, TypeOK, OneLookupAtATime
<1>5. Owned'
    BY <1>1, <1>2 DEF Throw, Inv, TypeOK, Owned, Lookups, Running
<1>6. Greeted'
    BY DEF Throw, Inv, TypeOK, Greeted, InLookup
<1> QED  BY <1>3, <1>4, <1>5, <1>6 DEF Inv

\* A step to a row keeps the lock, one to the end gives it back with the last.
LEMMA StepInv ==
    ASSUME Inv, NEW s \in Sessions, Step(s)
    PROVE  /\ stmt' \in [Lookups -> {"ready", "row", "done", "failed"} \cup Running]
           /\ \A l \in Lookups \ {op[s]} : stmt'[l] = stmt[l]
           /\ shared' \in BOOLEAN /\ LockHasReader'
<1>1. PICK state \in {"row", "done"} :
        /\ stmt' = [stmt EXCEPT ![op[s]] = state]
        /\ shared' = (state = "row" \/ OthersRun(op[s]))
    BY DEF Step
<1>2. op[s] \in Lookups
    BY DEF Inv, TypeOK
<1>3. /\ stmt' \in [Lookups -> {"ready", "row", "done", "failed"} \cup Running]
      /\ stmt'[op[s]] = state
      /\ \A l \in Lookups \ {op[s]} : stmt'[l] = stmt[l]
    BY <1>1, <1>2 DEF Inv, TypeOK
<1>4. shared' \in BOOLEAN
    BY <1>1 DEF OthersRun
<1>5. LockHasReader'
    BY <1>1, <1>2, <1>3 DEF LockHasReader, OthersRun, Running
<1> QED  BY <1>3, <1>4, <1>5

LEMMA NextInv == Inv /\ [Next]_vars => Inv'
<1> SUFFICES ASSUME Inv, [Next]_vars PROVE Inv'
    OBVIOUS
<1> USE DEF Inv
<1>1. ASSUME NEW s \in Sessions, Connect(s) PROVE Inv'
    BY <1>1 DEF Connect, TypeOK, OneLookupAtATime, Owned, Greeted, InLookup, Lookups, NewParameters, LockHasReader, Running
<1>2. ASSUME NEW s \in Sessions, Disconnect(s) PROVE Inv'
    BY <1>2 DEF Disconnect, TypeOK, OneLookupAtATime, Owned, Greeted, InLookup, Lookups, NewParameters, LockHasReader, Running
<1>3. ASSUME NEW s \in Sessions, NEW line \in Lines, Command(s, line) PROVE Inv'
    <2>1. par[s] \in [handshake : BOOLEAN, terminate : BOOLEAN, is_http : BOOLEAN]
        BY DEF TypeOK
    <2> QED  BY <1>3, <2>1, CddbRequestInv DEF Command, Line
<1>4. ASSUME NEW s \in Sessions, NEW line \in Lines, HttpGet(s, line) PROVE Inv'
    <2> DEFINE p0 == [par[s] EXCEPT !.is_http = TRUE]
               p1 == After(p0, line.hello)
               p2 == After(p1, line.proto)
    <2>1. /\ p0 \in [handshake : BOOLEAN, terminate : BOOLEAN, is_http : BOOLEAN]
          /\ p0.handshake = par[s].handshake
        BY DEF TypeOK
    <2>2. /\ p2 \in [handshake : BOOLEAN, terminate : BOOLEAN, is_http : BOOLEAN]
          /\ par[s].handshake => p2.handshake
        BY <2>1, AfterType
    <2>3. CASE CddbRequest(s, p2, line.cmd)
        BY <1>4, <2>2, <2>3, CddbRequestInv DEF HttpGet, Line
    <2>4. CASE pc' = [pc EXCEPT ![s] = "closed"] /\ UNCHANGED <<par, reply, op>>
        BY <1>4, <2>4
        DEF HttpGet, Line, TypeOK, OneLookupAtATime, Owned, Greeted, InLookup, Lookups, LockHasReader, Running
    <2> QED  BY <1>4, <2>3, <2>4 DEF HttpGet
<1>5. ASSUME NEW s \in Sessions, NEW line \in Lines, BadGet(s, line) PROVE Inv'
    BY <1>5 DEF BadGet, Line, TypeOK, OneLookupAtATime, Owned, Greeted, InLookup, Lookups, LockHasReader, Running
<1>6. ASSUME NEW s \in Sessions, NEW line \in Lines, SkipLine(s, line) PROVE Inv'
    BY <1>6 DEF SkipLine, Line, TypeOK, OneLookupAtATime, Owned, Greeted, InLookup, Lookups, LockHasReader, Running
<1>7. ASSUME NEW s \in Sessions, Enter(s) PROVE Inv'
    <2>1. /\ TypeOK' /\ Greeted' /\ LockHasReader'
        BY <1>7 DEF Enter, TypeOK, Greeted, InLookup, Lookups, LockHasReader
    <2>2. OneLookupAtATime'
        BY <1>7, ConstantsAssumption DEF Enter, TypeOK, OneLookupAtATime
    <2>3. Owned'
        BY <1>7, ConstantsAssumption DEF Enter, TypeOK, Owned, Lookups
    <2> QED  BY <2>1, <2>2, <2>3
<1>8. ASSUME NEW s \in Sessions, FirstStep(s) PROVE Inv'
    <2>1. mutex = s /\ op[s] \in Lookups
        BY <1>8 DEF FirstStep, OneLookupAtATime, TypeOK
    <2>2. /\ stmt' \in [Lookups -> {"ready", "row", "done", "failed"} \cup Running]
          /\ \A l \in Lookups \ {op[s]} : stmt'[l] = stmt[l]
          /\ shared' \in BOOLEAN /\ LockHasReader'
        BY <1>8, StepInv DEF FirstStep
    <2> QED  BY <1>8, <2>1, <2>2 DEF FirstStep, TypeOK, OneLookupAtATime, Owned, Greeted, InLookup
<1>9. ASSUME NEW s \in Sessions, FirstStepBusy(s) PROVE Inv'
    <2>1. LockHasReader' /\ shared' \in BOOLEAN
        BY <1>9 DEF FirstStepBusy, Throw, LockHasReader, TypeOK, Running
    <2> QED  BY <1>9, <2>1, ThrowInv DEF FirstStepBusy
<1>10. ASSUME NEW s \in Sessions, BindRefused(s) PROVE Inv'
    <2>1. mutex = s /\ op[s] \in Lookups /\ pc[s] = "bind"
        BY <1>10 DEF BindRefused, OneLookupAtATime, TypeOK
    <2>2. stmt[op[s]] \in {"stuck", "refused", "failed", "ready"}
        BY <2>1, ConstantsAssumption DEF Owned, TypeOK, Lookups, Running
    <2>3. LockHasReader' /\ shared' \in BOOLEAN
        BY <1>10, <2>1 DEF BindRefused, Throw, LockHasReader, TypeOK
    <2> QED  BY <1>10, <2>1, <2>2, <2>3, ThrowInv DEF BindRefused
<1>11. ASSUME NEW s \in Sessions, NextStep(s) PROVE Inv'
    <2>1. mutex = s
        BY <1>11 DEF NextStep, OneLookupAtATime
    <2>4. /\ stmt' \in [Lookups -> {"ready", "row", "done", "failed"} \cup Running]
          /\ \A l \in Lookups \ {op[s]} : stmt'[l] = stmt[l]
          /\ shared' \in BOOLEAN /\ LockHasReader'
        BY <1>11, StepInv DEF NextStep
    <2>2. TypeOK' /\ OneLookupAtATime' /\ Greeted'
        BY <1>11, <2>4 DEF NextStep, TypeOK, OneLookupAtATime, Greeted, InLookup
    <2>3. Owned'
        BY <1>11, <2>1, <2>4 DEF NextStep, Owned, TypeOK
    <2> QED  BY <2>2, <2>3, <2>4
<1>12. ASSUME NEW s \in Sessions, StepFails(s) PROVE Inv'
    <2>1. PICK state \in {"stuck", "failed"} :
            Throw(s, state) /\ shared' = (state = "stuck" \/ OthersRun(op[s]))
        BY <1>12 DEF StepFails
    <2>2. LockHasReader' /\ shared' \in BOOLEAN
        BY <2>1 DEF Throw, LockHasReader, OthersRun, TypeOK, Running
    <2> QED  BY <1>12, <2>1, <2>2, ThrowInv DEF StepFails
<1>13. ASSUME NEW s \in Sessions, Leave(s) PROVE Inv'
    <2>1. mutex = s /\ \A t \in Sessions : t # s => pc[t] \notin {"bind", "rows"}
        BY <1>13 DEF Leave, OneLookupAtATime
    <2>2. /\ pc' \in [Sessions -> {"closed", "getline", "lock", "bind", "rows"}]
          /\ pc'[s] \in {"closed", "getline", "lock"}
          /\ \A t \in Sessions : t # s => pc'[t] = pc[t] /\ reply'[t] = reply[t]
          /\ reply' \in [Sessions -> {"none", "code", "data"}]
          /\ op' \in [Sessions -> Lookups]
        <3> DEFINE some == found[s] \/ stmt[op[s]] = "row"
        <3>1. Respond(s, some)
            BY <1>13 DEF Leave
        <3>2. CASE ~some /\ op[s] = "exact"
            <4>1. /\ pc' = [pc EXCEPT ![s] = "lock"]
                  /\ op' = [op EXCEPT ![s] = "fuzzy"]
                  /\ reply' = reply
                BY <3>1, <3>2 DEF Respond
            <4> HIDE DEF some
            <4> QED  BY <4>1 DEF TypeOK, Lookups
        <3>3. CASE ~(~some /\ op[s] = "exact")
            <4>1. /\ pc' = [pc EXCEPT ![s] = NextLine(par[s])]
                  /\ op' = [op EXCEPT ![s] = "exact"]
                  /\ \E code \in {"code", "data"} : reply' = [reply EXCEPT ![s] = code]
                BY <3>1, <3>3 DEF Respond
            <4>2. NextLine(par[s]) \in {"closed", "getline"}
                BY DEF NextLine
            <4> HIDE DEF some
            <4> QED  BY <4>1, <4>2 DEF TypeOK, Lookups
        <3> QED  BY <3>2, <3>3
    <2>3. TypeOK'
        BY <1>13, <2>2 DEF Leave, TypeOK, Lookups, OthersRun
    <2>4. OneLookupAtATime'
        BY <1>13, <2>1, <2>2, ConstantsAssumption DEF Leave, OneLookupAtATime
    <2>5. Owned'
        BY <1>13, <2>1 DEF Leave, Owned, TypeOK, Lookups
    <2>6. Greeted'
        BY <1>13, <2>2 DEF Leave, Greeted, InLookup, TypeOK
    <2>7. LockHasReader'
        BY <1>13 DEF Leave, LockHasReader, OthersRun, TypeOK
    <2> QED  BY <2>3, <2>4, <2>5, <2>6, <2>7
<1>14. CASE WriterStep
    BY <1>14 DEF WriterStep, StartWriting, WantExclusive, GetExclusive, StopWriting, Lock,
        sessionVars, TypeOK, OneLookupAtATime, Owned, Greeted, InLookup, Lookups, LockHasReader, Running
<1>15. CASE UNCHANGED vars
    BY <1>15 DEF vars, TypeOK, OneLookupAtATime, Owned, Greeted, InLookup, Lookups, LockHasReader, Running
<1> QED
    BY <1>1, <1>2, <1>3, <1>4, <1>5, <1>6, <1>7, <1>8, <1>9, <1>10, <1>11, <1>12,
       <1>13, <1>14, <1>15
    DEF Next, SessionStep, LookupStep

\* All of the invariant holds in every reachable state of the server.
THEOREM ServerInvariance == Spec => []Inv
<1>1. Inv /\ [Next]_vars => Inv'
    BY NextInv
<1> QED  BY InitInv, <1>1, PTL DEF Spec

\* The variables of sessions, mutex, statements and file lock keep their
\* types (cddbserver.hpp, the members of CDDBSQLServer).
THEOREM ServerTypes == Spec => []TypeOK
<1>1. Inv => TypeOK
    BY DEF Inv
<1> QED  BY ServerInvariance, <1>1, PTL

\* m_sqlmutex keeps the lookups of any number of sessions apart.
THEOREM LookupsAreExclusive == Spec => []OneLookupAtATime
<1>1. Inv => OneLookupAtATime
    BY DEF Inv
<1> QED  BY ServerInvariance, <1>1, PTL

\* No sequence of lines gets data out of cddb_request before a hello.
THEOREM DataNeedsHandshake == Spec => []DataAfterHandshake
<1>1. Inv => DataAfterHandshake
    BY DEF Inv, Greeted, DataAfterHandshake
<1> QED  BY ServerInvariance, <1>1, PTL

\* SQLite's lock on the file outlives a lookup only if a statement was left
\* running: at a row the disk refused, or after SQLITE_BUSY, and nobody reset
\* it (cddbserver.cpp:159, 196, 251).
THEOREM IdleServerHoldsNoLock == Spec => []IdleHoldsNoLock
<1>1. Inv => IdleHoldsNoLock
    BY ConstantsAssumption DEF Inv, Owned, LockHasReader, Running, IdleHoldsNoLock
<1> QED  BY ServerInvariance, <1>1, PTL

-----------------------------------------------------------------------------
(* The server object and its listeners.                                    *)

Living == {"start", "blocked", "started"}

Unwinding ==
    /\ main \in Living => object = "whole"
    /\ main \in {"joinV4", "joinV6", "members"} => object = "base" /\ m_quit
    /\ main \in {"exit", "returned"} => object = "gone"
    /\ object = "gone" => /\ main \in {"exit", "returned", "terminated"}
                          /\ v4 \in {"none", "joined"}
                          /\ v6 = "done"
    /\ object # "whole" => main \notin Living

Listeners ==
    /\ v6 = "none" <=> main = "start"
    /\ main = "start" => v4 = "none"
    /\ main \in {"members", "exit", "returned"} => v6 = "done"
    /\ v6 = "open" /\ main \in {"unwind", "joinV4", "joinV6"} => "haste" \in happened
    /\ main \in {"joinV6", "members"} /\ v4 \notin {"none", "joined"}
            => "haste" \in happened

Causes ==
    /\ m_quit /\ main \in Living => "stop" \in happened
    /\ m_block /\ main \notin {"start", "blocked"} => happened # {}
    /\ m_block /\ v6 = "done" => happened # {}
    /\ main = "terminated" => "failure" \in happened \/ "haste" \in happened

LifeInv == LifeTypeOK /\ Unwinding /\ Listeners /\ Causes /\ SilentOnlyBroken

LEMMA LifeInitInv == LifeInit => LifeInv
BY DEF LifeInit, LifeInv, LifeTypeOK, Unwinding, Listeners, Causes, Living, SilentOnlyBroken

LEMMA LifeNextInv == LifeInv /\ [LifeNext]_lifeVars => LifeInv'
<1> SUFFICES ASSUME LifeInv, [LifeNext]_lifeVars PROVE LifeInv'
    OBVIOUS
<1> USE DEF LifeInv, LifeTypeOK, Unwinding, Listeners, Causes, Living, SilentOnlyBroken
<1>1. CASE Start
    BY <1>1 DEF Start, IsRunning
<1>2. CASE StartReturns
    BY <1>2 DEF StartReturns
<1>3. CASE DestroyDerived
    BY <1>3 DEF DestroyDerived
<1>4. CASE Quit
    BY <1>4 DEF Quit
<1>5. CASE JoinV4
    BY <1>5 DEF JoinV4
<1>6. CASE JoinV6
    BY <1>6 DEF JoinV6
<1>7. CASE DestroyMembers
    BY <1>7 DEF DestroyMembers
<1>8. CASE Return
    BY <1>8 DEF Return
<1>9. CASE Stop
    BY <1>9 DEF Stop
<1>10. CASE Destroy
    BY <1>10 DEF Destroy
<1>11. CASE OpenV6
    BY <1>11 DEF OpenV6, Listen, Ended
<1>12. CASE NoV6 \/ PortTaken \/ AcceptV6Fails
    BY <1>12 DEF NoV6, PortTaken, AcceptV6Fails, ListenV6Throws, Ended
<1>13. CASE OpenV4
    BY <1>13 DEF OpenV4, Listen, Ended
<1>14. CASE ListenV4Fails
    BY <1>14 DEF ListenV4Fails, Ended
<1>15. ASSUME NEW c \in Clients, AcceptV6(c) PROVE LifeInv'
    BY <1>15 DEF AcceptV6, Started, Listen, Ended
<1>16. ASSUME NEW c \in Clients, AcceptV4(c) PROVE LifeInv'
    BY <1>16 DEF AcceptV4, Started, Listen, Ended
<1>17. ASSUME NEW c \in Clients, Request(c) PROVE LifeInv'
    BY <1>17 DEF Request, Ended
<1>18. ASSUME NEW c \in Clients, EndRequest(c) PROVE LifeInv'
    BY <1>18 DEF EndRequest, Ended
<1>19. ASSUME NEW c \in Clients, EndSession(c) PROVE LifeInv'
    BY <1>19 DEF EndSession, Ended
<1>20. CASE UNCHANGED lifeVars
    BY <1>20 DEF lifeVars
<1> QED
    BY <1>1, <1>2, <1>3, <1>4, <1>5, <1>6, <1>7, <1>8, <1>9, <1>10,
       <1>11, <1>12, <1>13, <1>14, <1>15, <1>16, <1>17, <1>18, <1>19, <1>20
    DEF LifeNext, OwnerStep

\* The invariant holds in every reachable state of the server object.
THEOREM LifeInvariance == LifeSpec => []LifeInv
<1>1. LifeInv /\ [LifeNext]_lifeVars => LifeInv'
    BY LifeNextInv
<1> QED  BY LifeInitInv, <1>1, PTL DEF LifeSpec

\* The types of the threads and of the object (asioserver.hpp:74), among them
\* that a second listener runs only where sockets are for IPv6 only.
THEOREM LifeTypes == LifeSpec => []LifeTypeOK
<1>1. LifeInv => LifeTypeOK
    BY DEF LifeInv
<1> QED  BY LifeInvariance, <1>1, PTL

\* ~ASIOServer does not give the object back while a listener uses it
\* (asioserver.cpp:125).
THEOREM ListenersAreJoined == LifeSpec => []NoListenerOutlives
<1>1. LifeInv => NoListenerOutlives
    BY DEF LifeInv, Unwinding, Causes, NoListenerOutlives
<1> QED  BY LifeInvariance, <1>1, PTL

\* A session is answered by the whole object unless a listener failed.
THEOREM SilenceNeedsFailure == LifeSpec => []SilentOnlyBroken
<1>1. LifeInv => SilentOnlyBroken
    BY DEF LifeInv
<1> QED  BY LifeInvariance, <1>1, PTL
=============================================================================
