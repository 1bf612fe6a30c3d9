--------------------------- MODULE RegistryNotice ---------------------------
(***************************************************************************)
(* ServiceRegistry and an Agent that reads it once: at some moment it sees *)
(* the terms of the Services and the changes announced by then.            *)
(***************************************************************************)
EXTENDS ServiceRegistry

CONSTANT Unseen \* the Agent has not looked yet

VARIABLE seen

noticeVars == <<registryVars, seen>>

Look ==
  /\ seen = Unseen
  /\ seen' = [at |-> now, services |-> services, collections |-> collections,
              prices |-> prices, pending |-> pending]
  /\ UNCHANGED registryVars

NoticeInit == RegistryInit /\ seen = Unseen

NoticeNext == Look \/ (RegistryNext /\ UNCHANGED seen)

NoticeSpec == NoticeInit /\ [][NoticeNext]_noticeVars

-----------------------------------------------------------------------------

\* The changes of s that were announced when the Agent looked.
Announced(s) == {p.change : p \in {p \in seen.pending : p.serviceId = s}}

TierNoticed(s) ==
  \/ services[s].tier = seen.services[s].tier
  \/ \E c \in Announced(s) : c.kind = "Tier" /\ c.to = services[s].tier

WindowNoticed(s) ==
  \/ services[s].settlementWindow = seen.services[s].settlementWindow
  \/ \E c \in Announced(s) :
       c.kind = "SettlementWindow" /\ WindowOf(c.raw) = services[s].settlementWindow

PriceNoticed(l) ==
  \/ prices[l] = seen.prices[l]
  \/ \E c \in Announced(l[1]) :
       c.kind = "Price" /\ c.asset = l[2] /\ c.baseUnits = prices[l]

CollectionNoticed(l) ==
  \/ collections[l] = seen.collections[l]
  \/ \E c \in Announced(l[1]) :
       c.kind \in {"Collection", "AcceptedAsset"} /\ c.asset = l[2] /\ c.to = collections[l]

\* "An Agent that read a price or a Settlement Window has that long before
\* either can move under it" (ServiceRegistry.sol:110-112): for the length of
\* the timelock, every term is the one read or one then announced.
TermsAreNoticed ==
  seen # Unseen /\ now < seen.at + Timelock =>
    /\ \A s \in Services : seen.services[s].exists => TierNoticed(s) /\ WindowNoticed(s)
    /\ \A l \in Listings :
         seen.services[l[1]].exists => PriceNoticed(l) /\ CollectionNoticed(l)
=============================================================================
