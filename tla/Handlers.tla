------------------------------- MODULE Handlers -------------------------------
(***************************************************************************)
(* What all request handlers of the server have in common.                 *)
(*                                                                         *)
(* A handler runs between two awaits without interruption, and other       *)
(* handlers run while it waits.  One that reads rows and writes them later *)
(* is two steps: the first checks what it read and keeps a record of it,   *)
(* the second writes.  In between, or when the second step fails, the      *)
(* handler may also end without having written.  A function from callers   *)
(* to such records, or NULL, holds the handlers that are waiting.          *)
(***************************************************************************)
EXTENDS Naturals, FiniteSets, Rows

CONSTANT Callers   \* those whose requests are handled at one time

ASSUME CallersAssumption == IsFiniteSet(Callers)

Waits(calls, c, read) ==
    /\ calls[c] = NULL
    /\ calls' = [calls EXCEPT ![c] = read]

Ends(calls, c) ==
    /\ calls[c] # NULL
    /\ calls' = [calls EXCEPT ![c] = NULL]

NobodyWaits == [c \in Callers |-> NULL]
=============================================================================
