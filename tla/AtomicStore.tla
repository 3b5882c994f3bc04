------------------------------ MODULE AtomicStore -------------------------------
(* What a client may rely on: there is one store, every request takes effect on  *)
(* it exactly once, at one moment between the request and its answer, and an     *)
(* answer other than "Agreement Failure" is the result of that moment.           *)
(*                                                                               *)
(* "Agreement Failure" says nothing about the effect: the command was executed,  *)
(* and the copies were not seen to agree on it.                                  *)
EXTENDS KeyValueStore

CONSTANT Request               \* requests, each made at most once

Disagree == "Agreement Failure"

VARIABLES store,               \* the one store
          phase,               \* "unborn", "open", "executed" or "answered"
          command,             \* what the request asks for
          answer               \* what the client is told

vars == <<store, phase, command, answer>>

Reply == {Succeeded, Failed, NoValue} \cup Value

NoCommand == [op |-> "none"]

Init ==
    /\ store = EmptyStore
    /\ phase = [r \in Request |-> "unborn"]
    /\ command = [r \in Request |-> NoCommand]
    /\ answer = [r \in Request |-> NoValue]

Ask(r) ==
    /\ phase[r] = "unborn"
    /\ phase' = [phase EXCEPT ![r] = "open"]
    /\ \E c \in Question :
          command' = [command EXCEPT ![r] = c]
    /\ UNCHANGED <<store, answer>>

Execute(r) ==
    /\ phase[r] = "open"
    /\ phase' = [phase EXCEPT ![r] = "executed"]
    /\ LET did == Perform(store, Command(command[r], FALSE))
       IN  /\ store' = did.store
           /\ answer' \in {[answer EXCEPT ![r] = a] : a \in {did.reply, Disagree}}
    /\ UNCHANGED command

Answer(r) ==
    /\ phase[r] = "executed"
    /\ phase' = [phase EXCEPT ![r] = "answered"]
    /\ UNCHANGED <<store, command, answer>>

Next == \E r \in Request : Ask(r) \/ Execute(r) \/ Answer(r)

Spec == Init /\ [][Next]_vars
================================================================================
