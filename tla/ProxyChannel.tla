---------------------------- MODULE ProxyChannel ----------------------------
(***************************************************************************)
(* What the route syncer promises the proxies (spec 4.9, I4, S6), with no *)
(* reconcilers, caches or status: a serial channel of full route tables.   *)
(*                                                                         *)
(*   - a push takes the next version and goes to one proxy address;        *)
(*   - at most one push is in flight (SyncAll is serialised);              *)
(*   - a push is answered once, and the proxy either installs exactly the *)
(*     table and version that were sent, or keeps what it had.             *)
(*                                                                         *)
(* That a proxy's version only increases follows from these rules.         *)
(***************************************************************************)
EXTENDS Naturals

CONSTANTS
    Addresses,   \* proxy endpoints
    Tables,      \* full route tables
    EmptyTable   \* the table of a proxy that has been sent nothing

VARIABLES
    sent,        \* versions handed out so far
    inFlight,    \* the push awaiting its answer: {} or {[addr, version, table]}
    installed,   \* table each proxy serves
    installedAt  \* version of that table

pvars == <<sent, inFlight, installed, installedAt>>

Init ==
    /\ sent = 0
    /\ inFlight = {}
    /\ installed = [a \in Addresses |-> EmptyTable]
    /\ installedAt = [a \in Addresses |-> 0]

Push(a, t) ==
    /\ inFlight = {}
    /\ sent' = sent + 1
    /\ inFlight' = {[addr |-> a, version |-> sent + 1, table |-> t]}
    /\ UNCHANGED <<installed, installedAt>>

\* The answer arrives (or the call fails) after the proxy installed the push.
Installed(m) ==
    /\ installed' = [installed EXCEPT ![m.addr] = m.table]
    /\ installedAt' = [installedAt EXCEPT ![m.addr] = m.version]

Answer ==
    /\ \E m \in inFlight : Installed(m) \/ UNCHANGED <<installed, installedAt>>
    /\ inFlight' = {}
    /\ UNCHANGED sent

Next == (\E a \in Addresses, t \in Tables : Push(a, t)) \/ Answer

Spec == Init /\ [][Next]_pvars

=============================================================================
