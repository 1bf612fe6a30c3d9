----------------------------- MODULE MCGateway -----------------------------
(* Instances of Gateway: which writers are in use, and their requests.     *)
EXTENDS Gateway

TwoCalls == {<<"call", i>> : i \in 1 .. 2}
TwoPosts == {1, 2}

AllRequests ==
  TwoCalls \cup {Post(k) : k \in TwoPosts}
    \cup {Entry(s, n) : s \in 1 .. MaxPaid, n \in 1 .. MaxWrites}

OneCall == {<<"call", 1>>}

Load(calls, posts, paid_) ==
  [calls |-> calls, posts |-> posts, settlements |-> paid_, others |-> 0,
   lapses |-> FALSE, delegated |-> FALSE]

\* Two calls, two posts, two settlements, metering beside the relay, and a
\* call that a delegate signs while another Service uses the headroom.
MixedLoads ==
  {Load(TwoCalls, 0, 0), [Load({}, 2, 0) EXCEPT !.lapses = TRUE], Load({}, 0, 2),
   Load(OneCall, 1, 0),
   [Load(OneCall, 0, 0) EXCEPT !.others = 1, !.delegated = TRUE]}
=============================================================================
