----------------------------- MODULE KeyValueStore ------------------------------
(* The key-value store of one machine (headers/keyValueStore.h) as operators on  *)
(* its value, and the execution of one command against it                        *)
(* (ConnectionHandler::performOperationLocally).                                 *)
(*                                                                               *)
(* A store is a function from the keys it holds to [value, owner].  Operations   *)
(* that change it hold the store's mutex from beginning to end; a lookup takes   *)
(* none, and is taken to see the store before or after such a change.            *)
EXTENDS Naturals

CONSTANTS Key, Value

Operation == {"insert", "delete", "update", "lookup"}

NoValue == ""                  \* also what a lookup answers for a missing key

\* What a client can ask for.  The owner executes it with force FALSE; the form it
\* sends to its replicas (finsert, fdelete, ...) has force TRUE.
Question ==
    {c \in [op : Operation, key : Key, value : Value \cup {NoValue}] :
        c.value = NoValue <=> c.op \in {"delete", "lookup"}}

\* Mutant: the parser takes no value from a forced command.
CommandValueless(c, force) ==
    [op |-> c.op, key |-> c.key, value |-> IF force THEN NoValue ELSE c.value, force |-> force]

Command(c, force) ==
    [op |-> c.op, key |-> c.key, value |-> c.value, force |-> force]

Item == [value : Value, owner : BOOLEAN]

EmptyStore == [k \in {} |-> {}]

Succeeded == "Command succeeded"
Failed    == "Command failed"

\* Mutant: every new value is marked as owned.
MakeItemOwned(v, owner) == [value |-> v, owner |-> TRUE]

\* Value::setAsOwner / setAsReplica on a new value
MakeItem(v, owner) == [value |-> v, owner |-> owner]

Put(store, k, item) ==
    [x \in DOMAIN store \cup {k} |-> IF x = k THEN item ELSE store[x]]

Drop(store, k) == [x \in DOMAIN store \ {k} |-> store[x]]

--------------------------------------------------------------------------------
\* Mutant: a forced insert overwrites.
InsertOverwriting(store, k, v, owned) ==
    IF k \in DOMAIN store /\ owned
    THEN [store |-> store, reply |-> Failed]
    ELSE [store |-> Put(store, k, MakeItem(v, owned)), reply |-> Succeeded]

\* privateInsertKeyValue never overwrites: the owner refuses a key it has, a
\* replica ignores it and reports success.
Insert(store, k, v, owned) ==
    IF k \in DOMAIN store
    THEN [store |-> store, reply |-> IF owned THEN Failed ELSE Succeeded]
    ELSE [store |-> Put(store, k, MakeItem(v, owned)), reply |-> Succeeded]

\* privateDeleteKey: a missing key is logged, and the answer is still success.
Delete(store, k) == [store |-> Drop(store, k), reply |-> Succeeded]

\* privateUpdateKeyValue changes the value and keeps the ownership flag.
Update(store, k, v) ==
    IF k \in DOMAIN store
    THEN [store |-> [store EXCEPT ![k].value = v], reply |-> Succeeded]
    ELSE [store |-> store, reply |-> Failed]

\* lookupKey, which forceLookupKey calls
Lookup(store, k) ==
    [store |-> store,
     reply |-> IF k \in DOMAIN store THEN store[k].value ELSE NoValue]

\* Mutant: a forced delete is acknowledged and forgotten.
PerformWithoutForcedDelete(store, c) ==
    CASE c.op = "insert" -> Insert(store, c.key, c.value, ~c.force)
      [] c.op = "delete" -> IF c.force THEN [store |-> store, reply |-> Succeeded]
                                       ELSE Delete(store, c.key)
      [] c.op = "update" -> Update(store, c.key, c.value)
      [] c.op = "lookup" -> Lookup(store, c.key)

\* performOperationLocally
Perform(store, c) ==
    CASE c.op = "insert" -> Insert(store, c.key, c.value, ~c.force)
      [] c.op = "delete" -> Delete(store, c.key)
      [] c.op = "update" -> Update(store, c.key, c.value)
      [] c.op = "lookup" -> Lookup(store, c.key)
================================================================================
