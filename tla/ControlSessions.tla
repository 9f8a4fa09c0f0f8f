-------------------------- MODULE ControlSessions --------------------------
(***************************************************************************)
(* internal/control: the control streams between nodes and a supervisor,   *)
(* and the registry that says which stream is a node's current session.    *)
(* The session handler is the coordinator's: OnJoin, OnLeave and           *)
(* expireAgents, as far as they touch sessions and the list of agents.     *)
(*                                                                         *)
(* Every connection has its own server goroutine (Server.Join), so that    *)
(* the goroutines of an old and a new connection of one node interleave at *)
(* every lock.  A stream has two ends, and either may be the first to see  *)
(* it break.                                                               *)
(***************************************************************************)
EXTENDS Integers

CONSTANTS
    Node,           \* node ids
    MaxConn,        \* bound: connections a node makes
    MaxStalls,      \* bound: how often a node may go quiet
    PromptJoin      \* whether the client's backoff outlasts the OnJoin of the lost connection

ASSUME SessionsAssumption ==
    MaxConn \in Nat /\ MaxStalls \in Nat /\ PromptJoin \in BOOLEAN

Conn == 1 .. MaxConn
NoConn == 0

(***************************************************************************)
(* How far Server.Join is with a connection.  "added": the session is in   *)
(* the registry, with the one it displaced not closed yet; "listing": about *)
(* to write c.agents; "ending": the receive loop is over and OnLeave is to *)
(* run; "removed": OnLeave owned the registry entry.                       *)
(***************************************************************************)
Stage == {"unused", "hello", "added", "listing", "serving", "ending", "removed", "gone"}

VARIABLES
    dialled,    \* dialled[n]: the newest connection of node n, or NoConn
    nodeEnd,    \* nodeEnd[n]: the streams of which node n still holds its end
    srvEnd,     \* srvEnd[n]: the streams of which the supervisor still holds its end
    stage,      \* stage[n][c]: how far Server.Join is
    displaced,  \* displaced[n][c]: the session Add returned, to be closed
    closed,     \* closed[n]: the sessions that are closed
    quiet,      \* quiet[n]: the sessions last seen longer than AgentTimeout ago
    registry,   \* registry[n]: SessionRegistry.sessions, or NoConn
    listed,     \* the nodes in c.agents
    stalled,    \* the nodes that are sending nothing at the moment
    stalls      \* stalls[n]: how often it may still stall

transport == <<dialled, nodeEnd, srvEnd, stalled, stalls>>
sessionVars == <<dialled, nodeEnd, srvEnd, stage, displaced, closed, quiet, registry, listed,
          stalled, stalls>>

SessionsInit ==
    /\ dialled = [n \in Node |-> NoConn]
    /\ nodeEnd = [n \in Node |-> {}]
    /\ srvEnd = [n \in Node |-> {}]
    /\ stage = [n \in Node |-> [c \in Conn |-> "unused"]]
    /\ displaced = [n \in Node |-> [c \in Conn |-> NoConn]]
    /\ closed = [n \in Node |-> {}]
    /\ quiet = [n \in Node |-> {}]
    /\ registry = [n \in Node |-> NoConn]
    /\ listed = {}
    /\ stalled = {}
    /\ stalls = [n \in Node |-> MaxStalls]
-----------------------------------------------------------------------------
(***************************************************************************)
(* Client.Run: dial again only once the previous stream has ended for the  *)
(* node.                                                                   *)
(***************************************************************************)
Dial(n) ==
    /\ dialled[n] < MaxConn
    /\ nodeEnd[n] = {}
    /\ LET c == dialled[n] + 1
       IN  /\ dialled' = [dialled EXCEPT ![n] = c]
           /\ nodeEnd' = [nodeEnd EXCEPT ![n] = @ \cup {c}]
           /\ srvEnd' = [srvEnd EXCEPT ![n] = @ \cup {c}]
           /\ stage' = [stage EXCEPT ![n][c] = "hello"]
    /\ UNCHANGED <<displaced, closed, quiet, registry, listed, stalled, stalls>>

(***************************************************************************)
(* An assumption about time, which no line of the code checks: Client.Run  *)
(* sleeps before it dials again, and PromptJoin takes it that OnJoin of    *)
(* the lost connection is over by then.                                    *)
(***************************************************************************)
Backoff(n) == PromptJoin => \A c \in Conn : stage[n][c] \notin {"hello", "added", "listing"}

Redial(n) == Backoff(n) /\ Dial(n)

(***************************************************************************)
(* The stream breaks, as one end and then the other notices.               *)
(***************************************************************************)
NodeLosesStream(n, c) ==
    /\ c \in nodeEnd[n]
    /\ nodeEnd' = [nodeEnd EXCEPT ![n] = @ \ {c}]
    /\ UNCHANGED <<dialled, srvEnd, stage, displaced, closed, quiet, registry, listed,
                   stalled, stalls>>

ServerLosesStream(n, c) ==
    /\ c \in srvEnd[n]
    /\ srvEnd' = [srvEnd EXCEPT ![n] = @ \ {c}]
    /\ UNCHANGED <<dialled, nodeEnd, stage, displaced, closed, quiet, registry, listed,
                   stalled, stalls>>

(***************************************************************************)
(* A node or its network hangs and recovers without breaking the stream.   *)
(***************************************************************************)
Stall(n) ==
    /\ n \notin stalled /\ stalls[n] > 0
    /\ stalled' = stalled \cup {n}
    /\ stalls' = [stalls EXCEPT ![n] = @ - 1]
    /\ UNCHANGED <<dialled, nodeEnd, srvEnd, stage, displaced, closed, quiet, registry, listed>>

Resume(n) ==
    /\ n \in stalled
    /\ stalled' = stalled \ {n}
    /\ UNCHANGED <<dialled, nodeEnd, srvEnd, stage, displaced, closed, quiet, registry, listed,
                   stalls>>
-----------------------------------------------------------------------------
(***************************************************************************)
(* OnJoin: SessionRegistry.Add swaps the entry under the registry's lock,  *)
(* closes the displaced session after it, and the agent is listed under    *)
(* c.mu.                                                                   *)
(***************************************************************************)
Add(n, c) ==
    /\ stage[n][c] = "hello"
    /\ registry' = [registry EXCEPT ![n] = c]
    /\ displaced' = [displaced EXCEPT ![n][c] = registry[n]]
    /\ stage' = [stage EXCEPT ![n][c] = "added"]
    /\ UNCHANGED <<transport, closed, quiet, listed>>

(***************************************************************************)
(* Add that leaves the displaced session open.                             *)
(***************************************************************************)
KeepDisplaced(n, c) ==
    /\ stage[n][c] = "added"
    /\ stage' = [stage EXCEPT ![n][c] = "listing"]
    /\ UNCHANGED <<transport, displaced, closed, quiet, registry, listed>>

CloseDisplaced(n, c) ==
    /\ stage[n][c] = "added"
    /\ closed' = [closed EXCEPT ![n] = @ \cup ({displaced[n][c]} \ {NoConn})]
    /\ stage' = [stage EXCEPT ![n][c] = "listing"]
    /\ UNCHANGED <<transport, displaced, quiet, registry, listed>>

ListAgent(n, c) ==
    /\ stage[n][c] = "listing"
    /\ listed' = listed \cup {n}
    /\ stage' = [stage EXCEPT ![n][c] = "serving"]
    /\ UNCHANGED <<transport, displaced, closed, quiet, registry>>

(***************************************************************************)
(* receiveLoop: anything the node sends refreshes lastSeen, also on a      *)
(* session that has been closed.                                           *)
(***************************************************************************)
Receive(n, c) ==
    /\ stage[n][c] = "serving" /\ c \in nodeEnd[n] /\ c \in srvEnd[n]
    /\ n \notin stalled /\ c \in quiet[n]
    /\ quiet' = [quiet EXCEPT ![n] = @ \ {c}]
    /\ UNCHANGED <<transport, stage, displaced, closed, registry, listed>>

(***************************************************************************)
(* AgentTimeout passes without a message.                                  *)
(***************************************************************************)
FallQuiet(n, c) ==
    /\ stage[n][c] = "serving" /\ c \notin quiet[n]
    /\ n \in stalled \/ c \notin nodeEnd[n]
    /\ quiet' = [quiet EXCEPT ![n] = @ \cup {c}]
    /\ UNCHANGED <<transport, stage, displaced, closed, registry, listed>>

(***************************************************************************)
(* expireAgents: a registered session that is quiet is closed, no more.    *)
(***************************************************************************)
Expire(n, c) ==
    /\ registry[n] = c /\ c \in quiet[n] /\ c \notin closed[n]
    /\ closed' = [closed EXCEPT ![n] = @ \cup {c}]
    /\ UNCHANGED <<transport, stage, displaced, quiet, registry, listed>>

(***************************************************************************)
(* The receive loop ends when the stream does, never because the session   *)
(* was closed; Join then closes the session and runs OnLeave.              *)
(***************************************************************************)
EndSession(n, c) ==
    /\ stage[n][c] = "serving" /\ c \notin srvEnd[n]
    /\ closed' = [closed EXCEPT ![n] = @ \cup {c}]
    /\ stage' = [stage EXCEPT ![n][c] = "ending"]
    /\ UNCHANGED <<transport, displaced, quiet, registry, listed>>

(***************************************************************************)
(* Remove without its guard.                                               *)
(***************************************************************************)
RemoveUnguarded(n, c) ==
    /\ stage[n][c] = "ending"
    /\ registry' = [registry EXCEPT ![n] = NoConn]
    /\ stage' = [stage EXCEPT ![n][c] = "removed"]
    /\ UNCHANGED <<transport, displaced, closed, quiet, listed>>

(***************************************************************************)
(* OnLeave: SessionRegistry.Remove only removes the session it is given;   *)
(* the agent is taken off the list under another lock.                     *)
(***************************************************************************)
Remove(n, c) ==
    /\ stage[n][c] = "ending"
    /\ IF registry[n] = c
       THEN /\ registry' = [registry EXCEPT ![n] = NoConn]
            /\ stage' = [stage EXCEPT ![n][c] = "removed"]
       ELSE /\ stage' = [stage EXCEPT ![n][c] = "gone"]
            /\ UNCHANGED registry
    /\ UNCHANGED <<transport, displaced, closed, quiet, listed>>

DelistAgent(n, c) ==
    /\ stage[n][c] = "removed"
    /\ listed' = listed \ {n}
    /\ stage' = [stage EXCEPT ![n][c] = "gone"]
    /\ UNCHANGED <<transport, displaced, closed, quiet, registry>>
-----------------------------------------------------------------------------
Join(n, c) ==
    \/ Add(n, c) \/ CloseDisplaced(n, c) \/ ListAgent(n, c)
    \/ EndSession(n, c) \/ Remove(n, c) \/ DelistAgent(n, c)

SessionsNext ==
    \E n \in Node :
        \/ Redial(n) \/ Stall(n) \/ Resume(n)
        \/ \E c \in Conn :
             \/ NodeLosesStream(n, c) \/ ServerLosesStream(n, c)
             \/ Join(n, c)
             \/ Receive(n, c) \/ FallQuiet(n, c) \/ Expire(n, c)

SessionsSpec == SessionsInit /\ [][SessionsNext]_sessionVars

(***************************************************************************)
(* Goroutines run, a node that lost its stream dials again, a node that    *)
(* stalled recovers and its next heartbeat arrives.  A broken stream is    *)
(* noticed by the node, whose heartbeats then fail to go out, and by the   *)
(* supervisor, whose read fails.                                           *)
(***************************************************************************)
FairSessionsSpec ==
    /\ SessionsSpec
    /\ \A n \in Node :
         /\ WF_sessionVars(Redial(n)) /\ WF_sessionVars(Resume(n))
         /\ \A c \in Conn :
              /\ WF_sessionVars(Join(n, c)) /\ WF_sessionVars(Receive(n, c))
              /\ WF_sessionVars(c \notin srvEnd[n] /\ NodeLosesStream(n, c))
              /\ WF_sessionVars(c \notin nodeEnd[n] /\ ServerLosesStream(n, c))
-----------------------------------------------------------------------------
(***************************************************************************)
(* Every variable has its type.                                            *)
(***************************************************************************)
SessionsTypeOK ==
    /\ dialled \in [Node -> Conn \cup {NoConn}]
    /\ nodeEnd \in [Node -> SUBSET Conn]
    /\ srvEnd \in [Node -> SUBSET Conn]
    /\ stage \in [Node -> [Conn -> Stage]]
    /\ displaced \in [Node -> [Conn -> Conn \cup {NoConn}]]
    /\ closed \in [Node -> SUBSET Conn]
    /\ quiet \in [Node -> SUBSET Conn]
    /\ registry \in [Node -> Conn \cup {NoConn}]
    /\ listed \subseteq Node
    /\ stalled \subseteq Node
    /\ stalls \in [Node -> 0 .. MaxStalls]

(***************************************************************************)
(* No ghosts, and no live session evicted on behalf of a dead one: of the  *)
(* sessions of a node that are accepted and not closed, each one is the    *)
(* registry's entry, or is about to be closed by the one that displaced    *)
(* it.                                                                     *)
(***************************************************************************)
Accepted(n, c) == stage[n][c] \in {"added", "listing", "serving"}

NoGhosts ==
    \A n \in Node, c \in Conn :
        Accepted(n, c) /\ c \notin closed[n] =>
            \/ registry[n] = c
            \/ \E d \in Conn : d # c /\ stage[n][d] = "added" /\ displaced[n][d] = c

(***************************************************************************)
(* What keeps that true: a connection not dialled yet is unused, and a     *)
(* registered one has been through Add.                                    *)
(***************************************************************************)
Unused == \A n \in Node, c \in Conn : c > dialled[n] => stage[n][c] = "unused"

RegisteredWasAdded ==
    \A n \in Node, c \in Conn : registry[n] = c => stage[n][c] \notin {"unused", "hello"}

(***************************************************************************)
(* A node that can reach the supervisor ends up with a session the         *)
(* supervisor can send to: whenever it holds a connection, that connection *)
(* breaks or becomes the node's registered, open session.                  *)
(***************************************************************************)
Usable(n, c) == registry[n] = c /\ stage[n][c] = "serving" /\ c \notin closed[n]

AlwaysReconnects ==
    \A n \in Node, c \in Conn :
        c \in nodeEnd[n] ~> Usable(n, c) \/ c \notin nodeEnd[n]


(***************************************************************************)
(* A reconnecting node's new session replaces the stale one, never the     *)
(* other way round, as SessionRegistry says.  The code leaves this to      *)
(* time: without PromptJoin an OnJoin that is slow enough puts the stale   *)
(* session back and closes the new one.                                    *)
(***************************************************************************)
StaleIsReplaced ==
    [][\A n \in Node : registry'[n] # NoConn => registry'[n] >= registry[n]]_sessionVars

(***************************************************************************)
(* The list of agents keeps nobody who is gone: a listed node has a        *)
(* registered session, or the OnLeave that removed it is about to take the *)
(* node off the list.                                                      *)
(***************************************************************************)
ListedAreConnected ==
    \A n \in listed : registry[n] # NoConn \/ \E c \in Conn : stage[n][c] = "removed"
=============================================================================
