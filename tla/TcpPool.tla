------------------------------ MODULE TcpPool ------------------------------
(***************************************************************************)
(* The connections to M-Bus gateways of mbusread.cpp.  All meters behind   *)
(* one host and port share an entry, made by the first query of one of     *)
(* them.  After a failed connect the entry lets a number of queries pass   *)
(* before it tries again; an entry that once was connected is taken for    *)
(* connected ever after, whatever became of its socket.                    *)
(***************************************************************************)
EXTENDS Integers, Sequences

CONSTANTS Gateways,    \* the pairs of host and port
          RetryDelay   \* TCP_OPEN_RETRY_DELAY

ASSUME PoolAssumption == RetryDelay \in Nat \ {0}

VARIABLES isConnected,  \* the entries mbusTCP_open takes for connected
          retryCount,   \* queries an entry lets pass before it connects again
          listening,    \* the gateways that accept a connection
          socket        \* what has become of the connection of a gateway

poolVars == <<isConnected, retryCount, listening, socket>>

PoolTypeOK ==
    /\ isConnected \subseteq Gateways /\ listening \subseteq Gateways
    /\ retryCount \in [Gateways -> 0..RetryDelay]
    /\ socket \in [Gateways -> {"none", "up", "closed", "reset"}]

PoolInit == /\ isConnected = {}
            /\ retryCount = [g \in Gateways |-> 0]
            /\ listening \in SUBSET Gateways
            /\ socket = [g \in Gateways |-> "none"]

(***************************************************************************)
(* mbusTCP_open, one disjunct for each of its returns.  An entry that does *)
(* not exist yet is one whose retryCount is 0: both are connected at once. *)
(***************************************************************************)
UseConnection(g) ==
    /\ g \in isConnected
    /\ UNCHANGED poolVars

CountdownRetry_forgotten(g) == retryCount[g]
CountdownRetry(g) == retryCount[g] - 1

LetPass(g) ==
    /\ g \notin isConnected /\ retryCount[g] > 0
    /\ retryCount' = [retryCount EXCEPT ![g] = CountdownRetry(g)]
    /\ UNCHANGED <<isConnected, listening, socket>>

Connect(g) ==
    /\ g \notin isConnected /\ retryCount[g] = 0
    /\ g \in listening
    /\ isConnected' = isConnected \cup {g}
    /\ socket' = [socket EXCEPT ![g] = "up"]
    /\ UNCHANGED <<retryCount, listening>>

FailToConnect(g) ==
    /\ g \notin isConnected /\ retryCount[g] = 0
    /\ g \notin listening
    /\ retryCount' = [retryCount EXCEPT ![g] = RetryDelay]
    /\ UNCHANGED <<isConnected, listening, socket>>

mbusTCP_open(g) == UseConnection(g) \/ Connect(g)
mbusTCP_open_fails(g) == LetPass(g) \/ FailToConnect(g)

\* The gateway goes away or comes back, and closes connections.
ListenChange(g) ==
    /\ listening' = IF g \in listening THEN listening \ {g} ELSE listening \cup {g}
    /\ UNCHANGED <<isConnected, retryCount, socket>>

PeerCloses(g) ==
    /\ socket[g] = "up"
    /\ socket' = [socket EXCEPT ![g] = "closed"]
    /\ UNCHANGED <<isConnected, retryCount, listening>>
=============================================================================
