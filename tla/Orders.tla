------------------------------- MODULE Orders -------------------------------
(***************************************************************************)
(* Signed orders carried in inbox messages (signed-order.ts), the claim    *)
(* protocol a consumer follows so that an order delivered twice is run at  *)
(* most once (order-ledger-protocol.ts), and the wake signal that tells a  *)
(* local agent instance to look into its inbox (wake-contract.ts, wake-    *)
(* consumer-reference.ts).                                                 *)
(***************************************************************************)
EXTENDS Integers, FiniteSets

CONSTANTS
    OrderIds,           \* nonces of orders
    Issuers,            \* agents that may sign one
    Consumers,          \* processes sharing one ledger
    WakeInstances,      \* agent instances a message may be addressed to
    WakeWindow,         \* WakeCoalescer.windowMs
    MaxWakeTime         \* bound: how long the wake clock runs

ASSUME OrdersAssumption == WakeWindow \in Nat /\ MaxWakeTime \in Nat

VARIABLES
    ledger,             \* ledger[o]: the claim on nonce o
    consumer,           \* consumer[c]: the order c holds and whether it was run
    runs,               \* runs[o]: how often order o was dispatched (history)
    lastWake,           \* the coalescer's map
    wakeClock, awake,   \* time; instances registered as live
    wokenAt             \* the times each instance was woken (history)

orderVars == <<ledger, consumer, runs>>
wakeVars == <<lastWake, wakeClock, awake, wokenAt>>
ordersVars == <<ledger, consumer, runs, lastWake, wakeClock, awake, wokenAt>>

LedgerState == {"null", "reserved", "committed", "failed"}
Idle == [order |-> "none", ran |-> FALSE]

(* Faulty: a failed claim may be taken again. *)
nextLedgerStateRetry(current, event) ==
    CASE event = "reserve" /\ current \in {"null", "failed"} -> "reserved"
      [] event = "commit" /\ current = "reserved" -> "committed"
      [] event = "fail" /\ current = "reserved" -> "failed"
      [] OTHER -> "rejected"

(* nextLedgerState: only the first claim of a nonce may dispatch, only a   *)
(* claimed one is closed, and a closed one stays.                          *)
nextLedgerState(current, event) ==
    CASE event = "reserve" /\ current = "null" -> "reserved"
      [] event = "commit" /\ current = "reserved" -> "committed"
      [] event = "fail" /\ current = "reserved" -> "failed"
      [] OTHER -> "rejected"

mayDispatch(current, event) == event = "reserve" /\ nextLedgerState(current, event) = "reserved"

(* classifyInboundOrder: a marker that is no valid signed order of the     *)
(* transport's sender makes the message invalid, never a plain one.        *)
Markers == {"absent", "malformed", "oversize", "badSignature", "otherType", "noNonce", "order"}
classifyInboundOrder(marker, issuer, sender) ==
    CASE marker = "absent" -> "plain"
      [] marker = "order" /\ issuer = sender -> "order"
      [] OTHER -> "invalid"

OrderInit ==
    /\ ledger = [o \in OrderIds |-> "null"]
    /\ consumer = [c \in Consumers |-> Idle]
    /\ runs = [o \in OrderIds |-> 0]

(* A consumer reads a message, first delivery or a later copy, and claims  *)
(* the order in it; a claim that was refused drops the copy.               *)
Reserve(c) ==
    /\ consumer[c] = Idle
    /\ \E o \in OrderIds, marker \in Markers, issuer, sender \in Issuers :
           /\ classifyInboundOrder(marker, issuer, sender) = "order"
           /\ mayDispatch(ledger[o], "reserve")
           /\ ledger' = [ledger EXCEPT ![o] = nextLedgerState(@, "reserve")]
           /\ consumer' = [consumer EXCEPT ![c] = [order |-> o, ran |-> FALSE]]
    /\ UNCHANGED runs

Dispatch(c) ==
    /\ consumer[c] # Idle /\ ~consumer[c].ran
    /\ runs' = [runs EXCEPT ![consumer[c].order] = @ + 1]
    /\ consumer' = [consumer EXCEPT ![c].ran = TRUE]
    /\ UNCHANGED ledger

(* The claim is closed: committed after the run, failed with or without.   *)
CloseClaim(c, event) ==
    /\ consumer[c] # Idle
    /\ event = "commit" => consumer[c].ran
    /\ nextLedgerState(ledger[consumer[c].order], event) # "rejected"
    /\ ledger' = [ledger EXCEPT ![consumer[c].order] = nextLedgerState(@, event)]
    /\ consumer' = [consumer EXCEPT ![c] = Idle]
    /\ UNCHANGED runs

(* The process dies between two steps; the ledger is durable.              *)
ConsumerCrash(c) ==
    /\ consumer[c] # Idle
    /\ consumer' = [consumer EXCEPT ![c] = Idle]
    /\ UNCHANGED <<ledger, runs>>

OrderNext ==
    \E c \in Consumers : \/ Reserve(c) \/ Dispatch(c) \/ ConsumerCrash(c)
                         \/ CloseClaim(c, "commit") \/ CloseClaim(c, "fail")
-----------------------------------------------------------------------------
NotWoken == -1

WakeInit ==
    /\ lastWake = [i \in WakeInstances |-> NotWoken]
    /\ wakeClock = 0
    /\ awake = {}
    /\ wokenAt = [i \in WakeInstances |-> {}]

WakeTick ==
    /\ wakeClock < MaxWakeTime
    /\ wakeClock' = wakeClock + 1
    /\ UNCHANGED <<lastWake, awake, wokenAt>>

InstanceComesOrGoes(i) ==
    /\ awake' = IF i \in awake THEN awake \ {i} ELSE awake \union {i}
    /\ UNCHANGED <<lastWake, wakeClock, wokenAt>>

(* Faulty: every entry is pruned that is not the one just written. *)
shouldWakeForgetful(i) ==
    [ok |-> lastWake[i] = NotWoken \/ wakeClock - lastWake[i] >= WakeWindow,
     last |-> [j \in WakeInstances |-> IF j = i THEN wakeClock ELSE NotWoken]]

(* WakeCoalescer.shouldWake: within the window the wake is dropped; else    *)
(* the time is noted and entries that have run out are forgotten.          *)
shouldWake(i) ==
    LET noted == [lastWake EXCEPT ![i] = wakeClock]
    IN  [ok |-> lastWake[i] = NotWoken \/ wakeClock - lastWake[i] >= WakeWindow,
         last |-> [j \in WakeInstances |->
                      IF noted[j] # NotWoken /\ wakeClock - noted[j] >= WakeWindow
                      THEN NotWoken ELSE noted[j]]]

(* registerWakeEmitter on inbox:new: a message for a live instance wakes   *)
(* it, unless its SPIFFE URI is missing (then the window is used up all    *)
(* the same); one for no instance or for one that is not live wakes nobody.*)
InboxNew(i) ==
    /\ i \in awake /\ shouldWake(i).ok
    /\ lastWake' = shouldWake(i).last
    /\ \/ wokenAt' = [wokenAt EXCEPT ![i] = @ \union {wakeClock}]
       \/ UNCHANGED wokenAt
    /\ UNCHANGED <<wakeClock, awake>>

WakeNext == WakeTick \/ \E i \in WakeInstances : InstanceComesOrGoes(i) \/ InboxNew(i)
-----------------------------------------------------------------------------
(* Ledger, consumers and coalescer hold values of their kinds. *)
OrdersTypeOK ==
    /\ ledger \in [OrderIds -> LedgerState]
    /\ consumer \in [Consumers -> [order : OrderIds \union {"none"}, ran : BOOLEAN]]
    /\ lastWake \in [WakeInstances -> {NotWoken} \union 0..MaxWakeTime]

(* An order is run at most once, whatever copies arrive, whichever of the  *)
(* consumers reads them and wherever they crash; what is committed was run *)
(* (order-ledger-protocol.ts: claim before dispatch).                      *)
OrderRunsAtMostOnce ==
    \A o \in OrderIds : /\ runs[o] <= 1
                        /\ ledger[o] = "committed" => runs[o] = 1

(* The claim on a nonce is a one-shot verdict of OneShot. *)
LedgerOneShot == INSTANCE OneShot WITH
    Items <- OrderIds, Verdicts <- {"committed", "failed"},
    verdict <- [o \in OrderIds |-> CASE ledger[o] = "null" -> "none"
                                     [] ledger[o] = "reserved" -> "open"
                                     [] OTHER -> ledger[o]]

(* Two wakes of an instance are at least a window apart, although the      *)
(* coalescer forgets entries as it goes (wake-contract.ts).                *)
WakesAreCoalesced ==
    \A i \in WakeInstances : \A s, t \in wokenAt[i] : s < t => t - s >= WakeWindow
=============================================================================
