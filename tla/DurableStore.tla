---------------------------- MODULE DurableStore ----------------------------
(***************************************************************************)
(* What the persistence journal (nvm/journal.v) promises its callers, with *)
(* no flash in sight.  A block has the value a get() would return, and a   *)
(* set of values it may come back with after a power cut: the value last   *)
(* acknowledged, and every value a put() was attempting since.             *)
(***************************************************************************)
CONSTANTS
    Ids,        \* block ids
    Values,     \* the values a block can take
    NoValue     \* what get() answers for a block that has none

VARIABLES
    up,         \* the store is mounted
    degraded,   \* it said at mount that it could not take every block in
    served,     \* [Ids -> value]: what get() returns
    inDoubt,    \* [Ids -> set of values]: what the next mount may serve
    past        \* [Ids -> set of values]: every value a put() ever attempted

storeVars == <<up, degraded, served, inDoubt, past>>

StoreInit ==
    /\ up = FALSE
    /\ degraded = FALSE
    /\ served = [b \in Ids |-> NoValue]
    /\ inDoubt = [b \in Ids |-> {NoValue}]
    /\ past = [b \in Ids |-> {}]

\* An attempt to write v: until it is acknowledged the old value is served
\* and either may survive a power cut.
Attempt(b, v) ==
    /\ up
    /\ inDoubt' = [inDoubt EXCEPT ![b] = @ \cup {v}]
    /\ past' = [past EXCEPT ![b] = @ \cup {v}]
    /\ UNCHANGED <<up, degraded, served>>

\* An acknowledged write is served and is the only survivor.
Acknowledge(b, v) ==
    /\ up
    /\ v \in inDoubt[b]
    /\ served' = [served EXCEPT ![b] = v]
    /\ inDoubt' = [inDoubt EXCEPT ![b] = {v}]
    /\ UNCHANGED <<up, degraded, past>>

PowerLoss ==
    /\ up' = FALSE
    /\ degraded' = FALSE
    /\ served' = [b \in Ids |-> NoValue]
    /\ UNCHANGED <<inDoubt, past>>

\* A mount settles every block on one of the values in doubt.  A block the
\* mount could not take into its table (hidden) is served as absent, the store
\* says so, and its value must still be there for a later mount.
Recover ==
    /\ ~up
    /\ up' = TRUE
    /\ \E hidden \in SUBSET Ids :
         /\ hidden # {} => degraded'
         /\ \A b \in hidden : served'[b] = NoValue /\ inDoubt'[b] = inDoubt[b]
         /\ \A b \in Ids \ hidden :
              /\ served'[b] \in inDoubt[b]
              /\ inDoubt'[b] = {served'[b]}
    /\ served' \in [Ids -> Values \cup {NoValue}]
    /\ DOMAIN inDoubt' = Ids
    /\ UNCHANGED past

\* Blocks the schema no longer names are dropped: after the next mount they may be
\* gone or back, and back with an older value than the last.
Forget(ids) ==
    /\ up
    /\ served' = [b \in Ids |-> IF b \in ids THEN NoValue ELSE served[b]]
    /\ inDoubt' = [b \in Ids |-> IF b \in ids THEN past[b] \cup {NoValue}
                                              ELSE inDoubt[b]]
    /\ degraded' => degraded
    /\ UNCHANGED <<up, past>>

StoreNext ==
    \/ \E b \in Ids, v \in Values : Attempt(b, v) \/ Acknowledge(b, v)
    \/ PowerLoss
    \/ Recover
    \/ \E ids \in SUBSET Ids : Forget(ids)

StoreSpec == StoreInit /\ [][StoreNext]_storeVars
=============================================================================
