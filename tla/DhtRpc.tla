------------------------------- MODULE DhtRpc -------------------------------
(***************************************************************************)
(* A DHT node as NewRPC of pkg/dht/store.go puts it together: the value    *)
(* store its handlers write and read, and the routing table they answer    *)
(* from when it holds nothing.  Each has a lock of its own and measures    *)
(* time in ticks of its own, 24 hours against 15 minutes; FIND_NODE        *)
(* changes neither.                                                        *)
(***************************************************************************)
EXTENDS DhtStore

CONSTANTS Tables, Contacts, IdOf, SelfId, Bits, BucketSize, Silence, MaxTime

VARIABLES buckets, lastSeen, now

tableVars == <<buckets, lastSeen, now>>

Table == INSTANCE DhtTable

ASSUME TableAssumption == Table!SizesAssumption /\ Table!IdsAssumption

RpcInit == Init /\ Table!Init

RpcNext == \/ Next /\ UNCHANGED tableVars
           \/ Table!Next /\ UNCHANGED vars

RpcSpec == RpcInit /\ [][RpcNext]_<<vars, tableVars>>

-----------------------------------------------------------------------------
\* The routing table keeps its shape whatever is stored: see DhtTable.
WellPlaced == Table!TypeOK /\ Table!WellPlaced

AnswersNearest == Table!AnswersNearest

OnlySilentEvicted == Table!OnlySilentEvicted
=============================================================================
