----------------------------- MODULE ASIOServer -----------------------------
(***************************************************************************)
(* The life of the server object (src/asioserver.cpp).  One thread listens *)
(* for IPv6, and for IPv4 too where the system has dual-stack sockets;     *)
(* else it starts a second thread that listens for IPv4.  A detached       *)
(* thread serves every connection.                                         *)
(*                                                                         *)
(* The owner is main(), which starts the server in blocking mode: the      *)
(* listener for IPv6 is its own thread, and an exception there unwinds the *)
(* server object.  The class offers more: a start that returns and leaves  *)
(* the listener to a thread, stop(), and a destructor that waits for the   *)
(* threads.  An exception in any other thread ends the process.            *)
(***************************************************************************)
CONSTANTS
    Clients,    \* connections, each made once (bound of the model)
    Stacks,     \* "dual", "v6only", "v4only": what the system supports
    Blocks      \* how the owner starts the server

ASSUME StacksAssumption == Stacks \subseteq {"dual", "v6only", "v4only"}
ASSUME BlocksAssumption == Blocks \subseteq BOOLEAN

VARIABLES
    stack,      \* the system the program runs on
    m_block,
    main,       \* the owner
    v6, v4,     \* the listeners, in threads m_ipv6_server, m_ipv4_server
    m_quit,
    object,     \* "whole", "base" after ~CDDBSQLServer, "gone"
    session,    \* of each client
    happened    \* history: "failure" of a listener, "stop", "haste"

lifeVars == <<stack, m_block, main, v6, v4, m_quit, object, session, happened>>

LifeInit ==
    /\ stack \in Stacks
    /\ m_block \in Blocks
    /\ main = "start"
    /\ v6 = "none" /\ v4 = "none"
    /\ m_quit = FALSE
    /\ object = "whole"
    /\ session = [c \in Clients |-> "none"]
    /\ happened = {}

\* main has returned, or std::terminate was called.
Ended == main \in {"returned", "terminated"}

-----------------------------------------------------------------------------
(* The listeners.                                                          *)

\* A second start() throws and changes nothing.
IsRunning == (~m_block /\ v6 # "none") \/ v4 # "none"

\* (The fault never blocks: main() goes on.)
StartUnblocked ==
    /\ main = "start" /\ ~IsRunning
    /\ v6' = "open"
    /\ main' = "started"
    /\ UNCHANGED <<stack, m_block, v4, m_quit, object, session, happened>>

Start ==
    /\ main = "start" /\ ~IsRunning
    /\ v6' = "open"
    /\ main' = IF m_block THEN "blocked" ELSE "started"
    /\ UNCHANGED <<stack, m_block, v4, m_quit, object, session, happened>>

\* The loop of a listener looks at m_quit before it accepts.
Listen == IF m_quit THEN "done" ELSE "accept"

\* server(true): the option of the open socket says if it is for IPv6 only.
\* (The fault mixes the two answers up.)
OpenV6Inverted ==
    /\ v6 = "open" /\ ~Ended
    /\ stack # "v4only"
    /\ v4' = IF stack = "dual" THEN "open" ELSE v4
    /\ v6' = Listen
    /\ UNCHANGED <<stack, m_block, main, m_quit, object, session, happened>>

OpenV6 ==
    /\ v6 = "open" /\ ~Ended
    /\ stack # "v4only"
    /\ v4' = IF stack = "v6only" THEN "open" ELSE v4
    /\ v6' = Listen
    /\ UNCHANGED <<stack, m_block, main, m_quit, object, session, happened>>

\* server(false) in its own thread.
OpenV4 ==
    /\ v4 = "open" /\ ~Ended
    /\ v4' = Listen
    /\ UNCHANGED <<stack, m_block, main, v6, m_quit, object, session, happened>>

\* An exception of the listener for IPv6 unwinds the object of a blocked
\* owner; nobody catches it in a thread.
ListenV6Throws ==
    /\ ~Ended
    /\ v6' = "done"
    /\ main' = IF m_block THEN "unwind" ELSE "terminated"
    /\ happened' = happened \cup {"failure"}
    /\ UNCHANGED <<stack, m_block, v4, m_quit, object, session>>

\* The constructor of the acceptor throws where there is no IPv6, and it may
\* where there is, when the port is taken.
NoV6 == v6 = "open" /\ stack = "v4only" /\ ListenV6Throws

PortTaken == v6 = "open" /\ stack # "v4only" /\ ListenV6Throws

\* accept() is the one that throws, ec is not used.
AcceptV6Fails == v6 = "accept" /\ ListenV6Throws

ListenV4Fails ==
    /\ v4 \in {"open", "accept"} /\ ~Ended
    /\ main' = "terminated"
    /\ happened' = happened \cup {"failure"}
    /\ UNCHANGED <<stack, m_block, v6, v4, m_quit, object, session>>

\* A client connects: a detached thread serves it, and calls the virtual
\* functions of the object as it is by then.
Started(c) ==
    /\ ~Ended
    /\ session[c] = "none"
    /\ session' = [session EXCEPT ![c] = "started"]

AcceptV6(c) ==
    /\ v6 = "accept"
    /\ Started(c)
    /\ v6' = Listen
    /\ UNCHANGED <<stack, m_block, main, v4, m_quit, object, happened>>

AcceptV4(c) ==
    /\ v4 = "accept"
    /\ Started(c)
    /\ v4' = Listen
    /\ UNCHANGED <<stack, m_block, main, v6, m_quit, object, happened>>

-----------------------------------------------------------------------------
(* The owner, and the end of the server object.                            *)

\* stop(), from the owner or from another of its threads.
Stop ==
    /\ main \in {"blocked", "started"} /\ ~m_quit
    /\ m_quit' = TRUE
    /\ happened' = happened \cup {"stop"}
    /\ UNCHANGED <<stack, m_block, main, v6, v4, object, session>>

\* start() returns when the loop of its listener ends.
StartReturns ==
    /\ main = "blocked" /\ v6 = "done"
    /\ main' = "started"
    /\ UNCHANGED <<stack, m_block, v6, v4, m_quit, object, session, happened>>

\* The owner destroys the server, maybe before its listeners are open.
Destroy ==
    /\ main = "started"
    /\ main' = "unwind"
    /\ happened' = IF v6 = "open" THEN happened \cup {"haste"} ELSE happened
    /\ UNCHANGED <<stack, m_block, v6, v4, m_quit, object, session>>

\* ~CDDBSQLServer: the statements, the database and the mutex are destroyed.
DestroyDerived ==
    /\ main = "unwind" /\ object = "whole"
    /\ object' = "base"
    /\ UNCHANGED <<stack, m_block, main, v6, v4, m_quit, session, happened>>

\* ~ASIOServer: tell the listeners, and wait for the threads there are.
Quit ==
    /\ main = "unwind" /\ object = "base"
    /\ m_quit' = TRUE
    /\ main' = "joinV4"
    /\ UNCHANGED <<stack, m_block, v6, v4, object, session, happened>>

\* (The fault does not wait.)
JoinNobody ==
    /\ main = "joinV4"
    /\ main' = "joinV6"
    /\ UNCHANGED <<stack, m_block, v6, v4, m_quit, object, session, happened>>

JoinV4 ==
    /\ main = "joinV4" /\ v4 \in {"none", "done"}
    /\ v4' = IF v4 = "done" THEN "joined" ELSE v4
    /\ main' = "joinV6"
    /\ UNCHANGED <<stack, m_block, v6, m_quit, object, session, happened>>

\* A blocked owner was the listener itself.
JoinV6 ==
    /\ main = "joinV6" /\ v6 = "done"
    /\ main' = "members"
    /\ UNCHANGED <<stack, m_block, v6, v4, m_quit, object, session, happened>>

\* The members are destroyed; a thread that was not joined ends the process.
DestroyMembers ==
    /\ main = "members"
    /\ \/ v4 \in {"none", "joined"} /\ object' = "gone" /\ main' = "exit"
       \/ v4 \notin {"none", "joined"} /\ object' = object /\ main' = "terminated"
    /\ UNCHANGED <<stack, m_block, v6, v4, m_quit, session, happened>>

\* main() returns, which ends all threads.
Return ==
    /\ main = "exit"
    /\ main' = "returned"
    /\ session' = [c \in Clients |->
                    IF session[c] = "none" THEN "none" ELSE "ended"]
    /\ UNCHANGED <<stack, m_block, v6, v4, m_quit, object, happened>>

-----------------------------------------------------------------------------
(* The sessions.                                                           *)

\* request() of the class the object has by now, and its end.
Request(c) ==
    /\ session[c] = "started"
    /\ ~Ended
    /\ session' = [session EXCEPT ![c] = IF object = "whole" THEN "lookup" ELSE "silent"]
    /\ UNCHANGED <<stack, m_block, main, v6, v4, m_quit, object, happened>>

EndRequest(c) ==
    /\ session[c] \in {"lookup", "silent"}
    /\ ~Ended
    /\ \E next \in {"started", "ended"} : session' = [session EXCEPT ![c] = next]
    /\ UNCHANGED <<stack, m_block, main, v6, v4, m_quit, object, happened>>

\* The client leaves or the stream expires.
EndSession(c) ==
    /\ session[c] = "started"
    /\ ~Ended
    /\ session' = [session EXCEPT ![c] = "ended"]
    /\ UNCHANGED <<stack, m_block, main, v6, v4, m_quit, object, happened>>

OwnerStep ==
    \/ Start \/ StartReturns
    \/ DestroyDerived \/ Quit \/ JoinV4 \/ JoinV6 \/ DestroyMembers \/ Return

LifeNext ==
    \/ OwnerStep \/ Stop \/ Destroy
    \/ OpenV6 \/ NoV6 \/ OpenV4
    \/ PortTaken \/ AcceptV6Fails \/ ListenV4Fails
    \/ \E c \in Clients :
        \/ AcceptV6(c) \/ AcceptV4(c)
        \/ Request(c) \/ EndRequest(c) \/ EndSession(c)

\* The threads run; whether a client connects is left to the clients, and
\* whether a server is stopped or destroyed to its owner.
LifeSpec ==
    /\ LifeInit /\ [][LifeNext]_lifeVars
    /\ WF_lifeVars(OwnerStep)
    /\ WF_lifeVars(OpenV6 \/ NoV6)
    /\ WF_lifeVars(OpenV4)
    /\ \A c \in Clients : WF_lifeVars(EndRequest(c))

-----------------------------------------------------------------------------
(* Properties.                                                             *)

LifeTypeOK ==
    /\ stack \in Stacks
    /\ m_block \in Blocks
    /\ main \in {"start", "blocked", "started", "unwind", "joinV4", "joinV6",
                 "members", "exit", "returned", "terminated"}
    /\ v6 \in {"none", "open", "accept", "done"}
    /\ v4 \in {"none", "open", "accept", "done", "joined"}
    /\ v4 # "none" => stack = "v6only"
    /\ m_quit \in BOOLEAN
    /\ object \in {"whole", "base", "gone"}
    /\ session \in [Clients -> {"none", "started", "lookup", "silent", "ended"}]
    /\ happened \subseteq {"failure", "stop", "haste"}

\* A server that is destroyed waits for its listeners (asioserver.cpp:125):
\* none hands an object that is gone to a new session, and none is left whose
\* thread would end the whole process.  Only an owner in haste, that destroys
\* the server while its thread opens the socket for IPv6, may have looked for
\* the listener for IPv4 before there was one.
NoListenerOutlives ==
    /\ object = "gone" => {v6, v4} \cap {"open", "accept"} = {}
    /\ main = "terminated" => happened \cap {"failure", "haste"} # {}

\* Both kinds of clients find a listener, "ipv4 and ipv6 mode (if available)"
\* (README.md:42), unless one of the listeners failed or the owner did not want
\* it any more.  Where there is no IPv6, the acceptor throws before the code
\* for this case (asioserver.cpp:84): the server fails, and is never left
\* running without a listener.
Listening ==
    /\ v6 = "accept"
    /\ stack = "dual" \/ v4 = "accept"

BothAreServed ==
    <>("failure" \in happened \/ m_quit \/ main = "unwind" \/ Listening)

\* A server that main() started turns silent only after a failure, or if it
\* is told to stop: every other request is one of the whole object.
SilentOnlyBroken ==
    m_block => \A c \in Clients : session[c] = "silent" => happened # {}
=============================================================================
