------------------------------- MODULE McpBroker -------------------------------
(***************************************************************************)
(* The runner's MCP door: the broker that counts and budgets the tool calls*)
(* of a session, the executor around it, the tool handlers as far as they  *)
(* spend, and the one connection to the Console that proxied tools share.  *)
(*                                                                         *)
(* The checks before a call and the bookkeeping after it are synchronous;  *)
(* handlers of several calls run interleaved.  A call that times out is    *)
(* answered and booked while its handler goes on.                          *)
(***************************************************************************)
EXTENDS Naturals, FiniteSets, FiniteSetsExt

CONSTANTS
    ToolCalls,
    CostOf,         \* [ToolCalls -> Nat]: maxAmountUsdc, 0 if the tool does not pay
    Proxied,        \* calls of tools that are forwarded to the Console
    Malformed,      \* calls that fail the tool's schema, or name no tool
    NotOfTheRole,   \* calls of tools that the runner's roles do not have
    LargeOutputs,   \* calls whose result may exceed toolMaxOutputBytes
    MaxCalls, MaxTotal \* toolMaxCalls, toolMaxTotalUsdc

ASSUME BrokerAssumption ==
    /\ IsFiniteSet(ToolCalls) /\ CostOf \in [ToolCalls -> Nat] /\ LargeOutputs \subseteq ToolCalls
    /\ MaxCalls \in Nat /\ MaxTotal \in Nat

VARIABLES
    toolCall,      \* the stage of each call
    callCount, pendingCalls, totalCost, \* BrokerSessionState
    dispatched,    \* the calls whose handler was started
    paid,          \* the calls that have paid
    oversized,     \* the calls whose result was refused as too large
    connection,    \* client, connectPromise and closed of the connector
    connections    \* SDK clients that are connecting or open

brokerVars == <<toolCall, callCount, pendingCalls, totalCost, dispatched, paid, oversized,
                connection, connections>>

BrokerInit ==
    /\ toolCall = [c \in ToolCalls |-> "none"]
    /\ callCount = 0 /\ pendingCalls = 0 /\ totalCost = 0
    /\ dispatched = {} /\ paid = {} /\ oversized = {}
    /\ connection = [client |-> FALSE, promise |-> FALSE, closed |-> FALSE]
    /\ connections = 0

Moves(c, stage) == toolCall' = [toolCall EXCEPT ![c] = stage]
CallIs(c, stage) == toolCall[c] = stage

----------------------------------------------------------------------------
(* The broker                                                              *)

\* Mutant: calls that are still running are not counted.
BudgetOfTheEnded(c) == callCount < MaxCalls /\ totalCost < MaxTotal

AssertBudgetAllowed(c) == callCount + pendingCalls < MaxCalls /\ totalCost < MaxTotal

AssertPaymentBudgetAllowed(c) == CostOf[c] = 0 \/ totalCost + CostOf[c] <= MaxTotal

WellFormed(c) == c \notin Malformed

RoleHasTool(c) == c \notin NotOfTheRole

PreExecute(c) ==
    /\ WellFormed(c)
    /\ AssertBudgetAllowed(c) /\ AssertPaymentBudgetAllowed(c)

\* The role is checked first and leaves no trace; a refusal of the broker is
\* a call of the session.
Refuse(c) ==
    /\ CallIs(c, "none")
    /\ \/ ~RoleHasTool(c) /\ UNCHANGED callCount
       \/ RoleHasTool(c) /\ ~PreExecute(c) /\ callCount' = callCount + 1
    /\ Moves(c, "ended")
    /\ UNCHANGED <<pendingCalls, totalCost, dispatched, paid, oversized, connection,
                   connections>>

Dispatch(c) ==
    /\ CallIs(c, "none")
    /\ RoleHasTool(c) /\ PreExecute(c)
    /\ pendingCalls' = pendingCalls + 1
    /\ dispatched' = dispatched \cup {c}
    /\ Moves(c, IF c \in Proxied THEN "proxying" ELSE "running")
    /\ UNCHANGED <<callCount, totalCost, paid, oversized, connection, connections>>

Released(n) == IF pendingCalls > n THEN pendingCalls - n ELSE 0

RecordCall(cost) == callCount' = callCount + 1 /\ totalCost' = totalCost + cost

----------------------------------------------------------------------------
(* The executor                                                            *)

Running(c) == toolCall[c] \in {"running", "proxying", "connecting"}

\* A payment is made once per handler; one that throws may have been made.
Pays(c)     == paid' = IF CostOf[c] > 0 THEN paid \cup {c} ELSE paid
MayPay(c)   == Pays(c) \/ UNCHANGED paid

PostExecute(c) ==
    /\ CallIs(c, "running")
    /\ Pays(c)
    /\ RecordCall(CostOf[c])
    /\ pendingCalls' = Released(1)
    /\ Moves(c, "ended")
    /\ UNCHANGED <<dispatched, oversized, connection, connections>>

\* The size check throws, the slot is released, and the executor's catch
\* books a failure, which releases a slot too.
OutputTooLarge(c) ==
    /\ c \in LargeOutputs /\ CallIs(c, "running")
    /\ oversized' = oversized \cup {c}
    /\ Pays(c)
    /\ RecordCall(0)
    /\ pendingCalls' = Released(2)
    /\ Moves(c, "ended")
    /\ UNCHANGED <<dispatched, connection, connections>>

HandlerThrows(c) ==
    /\ CallIs(c, "running")
    /\ MayPay(c)
    /\ RecordCall(0)
    /\ pendingCalls' = Released(1)
    /\ Moves(c, "ended")
    /\ UNCHANGED <<dispatched, oversized, connection, connections>>

\* The abort signal may come too late for the handler.
TimesOut(c) ==
    /\ Running(c)
    /\ RecordCall(0)
    /\ pendingCalls' = Released(1)
    /\ Moves(c, IF CallIs(c, "running") THEN "late" ELSE "ended")
    /\ UNCHANGED <<dispatched, paid, oversized, connection, connections>>

LateHandlerEnds(c) ==
    /\ CallIs(c, "late")
    /\ MayPay(c)
    /\ Moves(c, "ended")
    /\ UNCHANGED <<callCount, pendingCalls, totalCost, dispatched, oversized, connection,
                   connections>>

----------------------------------------------------------------------------
(* The connector                                                           *)

BrokerRests == UNCHANGED <<callCount, pendingCalls, totalCost, dispatched, paid, oversized>>

\* Mutant: every call that finds no client opens a connection.
ConnectsItself == TRUE

StartsConnecting == ~connection.promise

EnsureConnected(c) ==
    /\ CallIs(c, "proxying")
    /\ connection.client \/ ~connection.closed
    /\ IF connection.client THEN Moves(c, "running") /\ UNCHANGED <<connection, connections>>
       ELSE /\ Moves(c, "connecting")
            /\ connection' = [connection EXCEPT !.promise = TRUE]
            /\ connections' = IF StartsConnecting THEN connections + 1 ELSE connections
    /\ BrokerRests

Waiters == {c \in ToolCalls : CallIs(c, "connecting")}

\* The client is set even if the connector was closed meanwhile.
Connected ==
    /\ connections > 0 /\ ~connection.client
    /\ connection' = [connection EXCEPT !.client = TRUE]
    /\ toolCall' = [c \in ToolCalls |-> IF c \in Waiters THEN "running" ELSE toolCall[c]]
    /\ UNCHANGED connections /\ BrokerRests

\* The waiting calls fail; the next call connects again.
ConnectFails ==
    /\ connections > 0 /\ ~connection.client
    /\ connection' = [connection EXCEPT !.promise = FALSE]
    /\ connections' = connections - 1
    /\ toolCall' = [c \in ToolCalls |-> IF c \in Waiters THEN "ended" ELSE toolCall[c]]
    /\ callCount' = callCount + Cardinality(Waiters)
    /\ pendingCalls' = Released(Cardinality(Waiters))
    /\ UNCHANGED <<totalCost, dispatched, paid, oversized>>

\* ensureConnected throws: the connector is closed.
RefusedConnection(c) ==
    /\ CallIs(c, "proxying") /\ connection.closed /\ ~connection.client
    /\ RecordCall(0)
    /\ pendingCalls' = Released(1)
    /\ Moves(c, "ended")
    /\ UNCHANGED <<dispatched, paid, oversized, connection, connections>>

Close ==
    /\ ~connection.closed
    /\ connection' = [client |-> FALSE, promise |-> FALSE, closed |-> TRUE]
    /\ connections' = IF connection.client THEN connections - 1 ELSE connections
    /\ UNCHANGED toolCall /\ BrokerRests

BrokerNext ==
    \/ \E c \in ToolCalls :
         \/ Refuse(c) \/ Dispatch(c) \/ PostExecute(c) \/ OutputTooLarge(c) \/ HandlerThrows(c)
         \/ TimesOut(c) \/ LateHandlerEnds(c) \/ EnsureConnected(c) \/ RefusedConnection(c)
    \/ Connected \/ ConnectFails \/ Close

BrokerSpec == BrokerInit /\ [][BrokerNext]_brokerVars

----------------------------------------------------------------------------

BrokerTypeOK ==
    /\ toolCall \in [ToolCalls -> {"none", "proxying", "connecting", "running", "late", "ended"}]
    /\ callCount \in 0 .. Cardinality(ToolCalls) /\ pendingCalls \in 0 .. Cardinality(ToolCalls)
    /\ totalCost \in Nat /\ dispatched \in SUBSET ToolCalls /\ paid \in SUBSET ToolCalls
    /\ oversized \in SUBSET LargeOutputs
    /\ connection \in [client : BOOLEAN, promise : BOOLEAN, closed : BOOLEAN]
    /\ connections \in 0 .. Cardinality(ToolCalls)

\* A session starts no more handlers than its limit, although they run
\* concurrently, fail and time out; only a result that is refused as too large
\* gives a slot back too many (preExecute, postExecute and recordFailure,
\* mcp-broker.ts, executeRunnerMcpTool, runner-mcp-executor.ts).
CallsAreBounded == Cardinality(dispatched) <= MaxCalls + Cardinality(oversized)

\* "Includes pending calls in the count to prevent concurrent oversubscription"
\* (mcp-broker.ts:404).
CallsWithinLimit == Cardinality(dispatched) <= MaxCalls

\* The calls of a session share one connection, however many of them find
\* none, fail to make one, give up waiting or meet a close
\* (ensureConnected and close, mcp-connector.ts).
OneConnection == connections <= 1

\* "Max USDC this session can spend across all tool calls" (mcp-broker.ts:49).
PaidWithinBudget == MapThenSumSet(LAMBDA c : CostOf[c], paid) <= MaxTotal
=============================================================================
