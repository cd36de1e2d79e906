---------------------------- MODULE AddressPool ----------------------------
(***************************************************************************)
(* What a DHCP server promises, with no messages, tables or time: a pool   *)
(* of addresses, each free, reserved for one client, or withheld from all. *)
(* An address passes from one client to another only through being free,   *)
(* and a client never has two addresses.                                   *)
(***************************************************************************)
CONSTANTS Client, Address, Withheld

VARIABLE held       \* set of <<address, client or Withheld>>

FreeAddress(a) == \A h \in held : h[1] # a
Unserved(c)    == \A h \in held : h[2] # c

Init == held = {}

Reserve(c, a) ==
    /\ FreeAddress(a)
    /\ Unserved(c)
    /\ held' = held \cup {<<a, c>>}

(* Reservations end: released, run out, or forgotten by a restart *)
Vacate(S) == held' = held \ S

(* A declined address is taken from its client and put out of use *)
Withhold(c, a) ==
    /\ \A h \in held : h[1] = a => h[2] = c
    /\ held' = (held \ {<<a, c>>}) \cup {<<a, Withheld>>}

Next ==
    \/ \E c \in Client, a \in Address : Reserve(c, a) \/ Withhold(c, a)
    \/ \E S \in SUBSET held : Vacate(S)

Spec == Init /\ [][Next]_held

(* Every address has at most one holder and every client one address *)
Exclusive ==
    \A h, g \in held : (h[1] = g[1] \/ (h[2] = g[2] /\ h[2] # Withheld)) => h = g
=============================================================================
