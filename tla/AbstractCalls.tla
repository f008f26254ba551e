---------------------------- MODULE AbstractCalls ----------------------------
(***************************************************************************)
(* What the calls to providers promise the council, with attempts, breakers *)
(* and backoffs left out: a call sends a bounded number of requests, no     *)
(* more to its fallback than one attempt may send, and ends once, with an   *)
(* answer to one of them, or with a failure that the fallback has had its   *)
(* turn to prevent.  No call moves when another one does.                   *)
(***************************************************************************)
EXTENDS Integers

CONSTANTS
  Calls,
  MaxRounds,    \* what it may send to its fallback
  MaxRequests   \* what one call may send

VARIABLES
  entitled,     \* the calls that are owed a try of their fallback
  outcome,      \* of each call: "pending", "answered" or "failed"
  tried,        \* whether its fallback's turn has come
  sent          \* requests it sent to its primary provider and to the fallback

vars == <<entitled, outcome, tried, sent>>
Whom == {"primary", "fallback"}

Total(c) == sent[c]["primary"] + sent[c]["fallback"]

Init ==
  /\ entitled \in SUBSET Calls
  /\ outcome = [c \in Calls |-> "pending"]
  /\ tried = [c \in Calls |-> FALSE]
  /\ sent = [c \in Calls |-> [w \in Whom |-> 0]]

Send(c, w) ==
  /\ outcome[c] = "pending" /\ Total(c) < MaxRequests
  /\ w = "fallback" => tried[c] /\ sent[c]["fallback"] < MaxRounds
  /\ sent' = [sent EXCEPT ![c][w] = @ + 1]
  /\ UNCHANGED <<entitled, outcome, tried>>

TryFallback(c) ==
  /\ outcome[c] = "pending" /\ ~tried[c]
  /\ tried' = [tried EXCEPT ![c] = TRUE]
  /\ UNCHANGED <<entitled, outcome, sent>>

Answer(c) ==
  /\ outcome[c] = "pending" /\ Total(c) > 0
  /\ outcome' = [outcome EXCEPT ![c] = "answered"]
  /\ UNCHANGED <<entitled, tried, sent>>

Fail(c) ==
  /\ outcome[c] = "pending"
  /\ outcome' = [outcome EXCEPT ![c] = "failed"]
  /\ \E t \in {tried[c], TRUE} :
       /\ c \in entitled => t
       /\ tried' = [tried EXCEPT ![c] = t]
  /\ UNCHANGED <<entitled, sent>>

Next ==
  \E c \in Calls : \/ \E w \in Whom : Send(c, w)
                   \/ TryFallback(c) \/ Answer(c) \/ Fail(c)
Spec == Init /\ [][Next]_vars
===============================================================================
