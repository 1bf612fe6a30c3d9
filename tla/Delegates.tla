----------------------------- MODULE Delegates -----------------------------
(***************************************************************************)
(* Calls that are signed by a delegate of the Agent: the contract          *)
(* MeteringDelegates.sol, and delegates.ts, which reads it for every call  *)
(* or holds a positive answer for a while.  The answer and the expiry are  *)
(* two reads beside each other.                                            *)
(***************************************************************************)
EXTENDS Metering

CONSTANTS
  CacheTime,   \* cacheMs
  ReadTime,    \* how long the reads of one call can take
  MaxDelegation,
  MaxNow       \* bound on the clock

ASSUME DelegatesAssumption == {CacheTime, ReadTime, MaxDelegation, MaxNow} \subseteq Nat

VARIABLES
  now,      \* the clock of the gateway and of the blocks
  expiry,   \* the expiry of the delegate on chain; 0 is never set or revoked
  stood,    \* the last moment it was a delegate, or -1
  held,     \* until when a positive answer is held, or 0
  isRead,   \* isDelegate as a call read it, and when, or Nothing
  untilRead \* expiryOf as a call read it, or Nothing

contractVars == <<now, expiry, stood>>
readerVars == <<held, isRead, untilRead>>
delegateVars == <<contractVars, readerVars>>

DelegatesInit ==
  /\ now = 0 /\ expiry = 0 /\ stood = -1 /\ held = 0
  /\ isRead = [c \in Calls |-> Nothing]
  /\ untilRead = [c \in Calls |-> Nothing]

-----------------------------------------------------------------------------
(* The contract and the clock.                                             *)

IsDelegate == expiry > now

Stands(until, time) == stood' = IF until > time THEN time ELSE stood

SetDelegate ==
  /\ \E until \in now + 1 .. now + MaxDelegation :
       expiry' = until /\ Stands(until, now)
  /\ UNCHANGED <<now, readerVars>>

Revoke ==
  /\ expiry # 0
  /\ expiry' = 0
  /\ UNCHANGED <<now, stood, readerVars>>

\* A read that takes longer is given up by the provider.
DelegatesTick ==
  /\ now < MaxNow
  /\ \A c \in Calls : isRead[c] # Nothing => now < isRead[c].at + ReadTime
  /\ now' = now + 1
  /\ Stands(expiry, now + 1)
  /\ UNCHANGED <<expiry, readerVars>>

-----------------------------------------------------------------------------
(* isDelegate of delegates.ts.                                             *)

Reads(c) == stage[c] = "arrived" /\ ~(isRead[c] = Nothing /\ untilRead[c] = Nothing /\ now < held)

FromHeld(c) ==
  /\ stage[c] = "arrived" /\ isRead[c] = Nothing /\ untilRead[c] = Nothing
  /\ now < held
  /\ Admit(c)
  /\ UNCHANGED delegateVars

ReadIsDelegate(c) ==
  /\ Reads(c) /\ isRead[c] = Nothing
  /\ isRead' = [isRead EXCEPT ![c] = [is |-> IsDelegate, at |-> now]]
  /\ UNCHANGED <<contractVars, held, untilRead, meteringVars>>

ReadExpiry(c) ==
  /\ Reads(c) /\ untilRead[c] = Nothing
  /\ untilRead' = [untilRead EXCEPT ![c] = expiry]
  /\ UNCHANGED <<contractVars, held, isRead, meteringVars>>

\* What was read is dropped with the answer.
Forget(c) ==
  /\ isRead' = [isRead EXCEPT ![c] = Nothing]
  /\ untilRead' = [untilRead EXCEPT ![c] = Nothing]

\* Mutant: an answer is held until the delegation's own expiry.
HeldUntilExpiry(until) == until

\* A positive answer is held for so long, and not past the expiry.
HeldUntil(until) == IF until < now + CacheTime THEN until ELSE now + CacheTime

Decide(c) ==
  /\ isRead[c] # Nothing /\ untilRead[c] # Nothing
  /\ IF isRead[c].is
       THEN /\ Admit(c)
            /\ held' = IF HeldUntil(untilRead[c]) > now THEN HeldUntil(untilRead[c]) ELSE held
       ELSE TurnAway(c) /\ UNCHANGED held
  /\ Forget(c)
  /\ UNCHANGED contractVars

\* A read fails: the call is not let in.
Unreadable(c) ==
  /\ Reads(c)
  /\ TurnAway(c)
  /\ Forget(c)
  /\ UNCHANGED <<contractVars, held>>

DelegateCheck(c) ==
  FromHeld(c) \/ ReadIsDelegate(c) \/ ReadExpiry(c) \/ Decide(c) \/ Unreadable(c)

ReaderRestarts ==
  /\ held' = 0
  /\ isRead' = [c \in Calls |-> Nothing]
  /\ untilRead' = [c \in Calls |-> Nothing]
  /\ UNCHANGED contractVars

-----------------------------------------------------------------------------
\* A call is let in only for a key that was the Agent's delegate no longer
\* ago than an answer is held and a read takes, whatever the Agent sets and
\* revokes in between; with nothing held, that is the time of the read.
DelegateStoodLately ==
  [][\A c \in Calls :
       DelegateCheck(c) /\ stage'[c] = "called" => now - stood <= CacheTime + ReadTime
    ]_<<stage, delegateVars>>
=============================================================================
