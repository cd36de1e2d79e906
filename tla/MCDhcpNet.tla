----------------------------- MODULE MCDhcpNet -----------------------------
(* Instances of DhcpNet: one or two clients, one or two servers. *)
EXTENDS DhcpNet, TLC

CONSTANTS a, b

Symmetry == Permutations(Client)

(* Two clients that compete for one address, on a network that loses *)
Loss == [clients |-> {a, b}, pool |-> [s \in {9} |-> {1}],
         room |-> 2, lossy |-> TRUE, prompt |-> FALSE, quick |-> TRUE,
         faults |-> {}, cancellers |-> {}, maxclock |-> 3]

(* Two servers that compete for one client, on the same network *)
Rivals(c) == [Loss EXCEPT !.clients = {c}, !.pool = [s \in {8, 9} |-> {s - 7}],
                          !.maxclock = 2]

(* Two clients with an address each, and nothing in their way *)
Calm == [clients |-> {a, b}, pool |-> [s \in {9} |-> {1, 2}],
         room |-> 4, lossy |-> FALSE, prompt |-> TRUE, quick |-> TRUE,
         faults |-> {}, cancellers |-> {}, maxclock |-> 4]

(* A client that is cancelled, and everything in its way *)
Cancelled == [clients |-> {a}, pool |-> [s \in {9} |-> {1}],
              room |-> 1, lossy |-> TRUE, prompt |-> FALSE, quick |-> FALSE,
              faults |-> {"send", "recv", "restart"}, cancellers |-> {a}, maxclock |-> 2]

Unreliable == {Loss, Rivals(a), Rivals(b)}
Live == {Calm, Cancelled}
Slow == {[Calm EXCEPT !.room = 2, !.prompt = FALSE, !.quick = FALSE]}
=============================================================================
