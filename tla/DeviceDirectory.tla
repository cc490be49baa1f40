--------------------------- MODULE DeviceDirectory ---------------------------
(***************************************************************************)
(* What the device service promises its clients, without saying how: a     *)
(* directory in which a device is entered once and for good.  A call takes *)
(* effect at one instant between its question and its answer, and the      *)
(* answer is true at that instant.  An error promises nothing: the device  *)
(* may have been entered all the same.                                     *)
(*                                                                         *)
(* DeviceRegistry implements this specification (ImplementsDirectory).     *)
(***************************************************************************)

CONSTANTS
  Client,  \* who asks, one call at a time
  Device,  \* device ids
  NoCall   \* no owner

VARIABLES
  owner,   \* the client whose call entered a device
  asked,   \* the operation and the device of a client's call
  told,    \* its answer, "open" until there is one
  listing  \* the devices that its last list named

directoryVars == <<owner, asked, told, listing>>

Question == [op : {"create", "get", "list", "update"}, dev : Device]

Entered(d) == owner[d] # NoCall

Init ==
  /\ owner = [d \in Device |-> NoCall]
  /\ asked \in [Client -> Question]
  /\ told = [c \in Client |-> "idle"]
  /\ listing = [c \in Client |-> {}]

\* A question that lacks a field is answered at once.
Ask(c) ==
  /\ told[c] # "open"
  /\ \E q \in Question : asked' = [asked EXCEPT ![c] = q]
  /\ \E a \in {"open", "invalid"} : told' = [told EXCEPT ![c] = a]
  /\ UNCHANGED <<owner, listing>>

Open(c, op) == told[c] = "open" /\ asked[c].op = op

Tell(c, a) == told' = [told EXCEPT ![c] = a] /\ UNCHANGED asked

\* The device becomes the client's, who may not learn of it.
Enter(c) ==
  /\ Open(c, "create") /\ ~Entered(asked[c].dev)
  /\ owner' = [owner EXCEPT ![asked[c].dev] = c]
  /\ \E a \in {"created", "error"} : Tell(c, a)
  /\ UNCHANGED listing

\* What is said of a device that is there, and of one that is not.
Affirm(c) ==
  /\ told[c] = "open" /\ Entered(asked[c].dev)
  /\ \/ Open(c, "create") /\ Tell(c, "exists")
     \/ Open(c, "get") /\ Tell(c, "found")
     \/ Open(c, "update") /\ Tell(c, "updated")
  /\ UNCHANGED <<owner, listing>>

Deny(c) ==
  /\ Open(c, "get") /\ ~Entered(asked[c].dev)
  /\ Tell(c, "missing")
  /\ UNCHANGED <<owner, listing>>

List(c) ==
  /\ Open(c, "list")
  /\ \E L \in SUBSET {d \in Device : Entered(d)} : listing' = [listing EXCEPT ![c] = L]
  /\ Tell(c, "listed")
  /\ UNCHANGED owner

\* One call fails, or all that are open do.
Fail(C) ==
  /\ \A c \in C : told[c] = "open"
  /\ told' = [c \in Client |-> IF c \in C THEN "error" ELSE told[c]]
  /\ UNCHANGED <<owner, asked, listing>>

Next ==
  \/ \E c \in Client : Ask(c) \/ Enter(c) \/ Affirm(c) \/ Deny(c) \/ List(c)
  \/ \E C \in SUBSET Client : Fail(C)

Spec == Init /\ [][Next]_directoryVars
=============================================================================
