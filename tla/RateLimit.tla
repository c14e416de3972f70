----------------------------- MODULE RateLimit ------------------------------
(***************************************************************************)
(* The rate limiter in front of every /api/v1 route: a counter in Redis    *)
(* per address and minute, counted up (INCR) and given a time to live      *)
(* (EXPIRE) by two commands without a transaction.  An error of either is  *)
(* let pass.  The client resends a command whose reply it has lost, and    *)
(* Redis, which has no volume in the cluster, may lose its keys.           *)
(*                                                                         *)
(* A counter of 0 is a key that is not there.  A minute is named by its    *)
(* first tick.  What lies behind the limiter is entered at "auth".         *)
(***************************************************************************)
EXTENDS Integers, FiniteSets

CONSTANTS
  Request,   \* requests to the API, each served once
  Address,   \* client addresses
  Limits,    \* what RATE_LIMIT_PER_MIN may be set to
  Minute,    \* ticks to the minute, the counters' window
  MaxTime,   \* the last tick
  NoKey      \* no counter

Key == Address \X (0..MaxTime)

ASSUME RateLimitAssumption ==
  /\ IsFiniteSet(Request)
  /\ Limits \subseteq Int
  /\ Minute \in Nat \ {0}
  /\ MaxTime \in Nat
  /\ NoKey \notin Key

VARIABLES
  perMinute,  \* RATE_LIMIT_PER_MIN
  now,        \* the clock
  minute,     \* the minute it is in
  count,      \* the counters
  ends,       \* when they expire, 0 while no time to live is set
  at,         \* where a request is
  key,        \* the counter it is counted on
  entry,      \* how it came in: "counted" in the minute of its counter, or "late"
  resent,     \* history: counters an INCR was sent to twice
  troubled,   \* history: counters whose first INCR failed though it counted, or
              \* was sent twice, or whose EXPIRE failed
  lost        \* history: counters Redis has lost

clockVars == <<now, minute>>
redisVars == <<count, ends>>
limitHistory == <<resent, troubled, lost>>
limitVars == <<perMinute, now, minute, count, ends, key, entry, resent, troubled, lost>>

LimitTypeOK ==
  /\ perMinute \in Limits
  /\ now \in 0..MaxTime /\ minute \in 0..MaxTime
  /\ count \in [Key -> Nat] /\ ends \in [Key -> Nat]
  /\ key \in [Request -> Key \cup {NoKey}]
  /\ entry \in [Request -> {"none", "counted", "late", "open", "refused"}]
  /\ resent \subseteq Key /\ troubled \subseteq Key /\ lost \subseteq Key

LimitInit ==
  /\ perMinute \in Limits
  /\ now = 0 /\ minute = 0
  /\ count = [k \in Key |-> 0] /\ ends = [k \in Key |-> 0]
  /\ key = [r \in Request |-> NoKey]
  /\ entry = [r \in Request |-> "none"]
  /\ resent = {} /\ troubled = {} /\ lost = {}

Goto(r, step) == at' = [at EXCEPT ![r] = step]

Enter(r, how) == entry' = [entry EXCEPT ![r] = how]

(* The request arrives; without a limit nothing is counted.  The identity is *)
(* the address: the limiter runs before Auth, so no caller is known yet.     *)
Arrive(r, a) ==
  /\ at[r] = "new"
  /\ \/ /\ perMinute <= 0
        /\ Goto(r, "auth") /\ Enter(r, "open") /\ UNCHANGED key
     \/ /\ perMinute > 0
        /\ key' = [key EXCEPT ![r] = <<a, minute>>]
        /\ Goto(r, "incr") /\ UNCHANGED entry
  /\ UNCHANGED <<perMinute, clockVars, redisVars, limitHistory>>

Increment(k) == count' = [count EXCEPT ![k] = @ + 1] /\ UNCHANGED ends

(* Mutant: the limit is reached by the request that makes it full. *)
WithinOrFull(n) == n < perMinute

Within(n) == n <= perMinute

(* Mutant: the time to live is set when the limit is reached. *)
CreatedByLast(n) == n = perMinute

Created(n) == n = 1

(* INCR answers with the new count n; only a count of one sets its end. *)
Counted(r) ==
  LET k == key[r]
      n == count[k] + 1
  IN  /\ Increment(k)
      /\ IF ~Within(n) THEN Goto(r, "done") /\ Enter(r, "refused")
         ELSE /\ Goto(r, IF Created(n) THEN "expire" ELSE "auth")
              /\ Enter(r, IF k[2] = minute THEN "counted" ELSE "late")

(* An INCR counts whose caller will not see that it was the first. *)
CountUnseen(k) ==
  /\ Increment(k)
  /\ troubled' = IF count[k] = 0 THEN troubled \cup {k} ELSE troubled

(* INCR, whose error lets the request pass, counted or not. *)
Incr(r) ==
  /\ at[r] = "incr"
  /\ \/ Counted(r) /\ UNCHANGED troubled
     \/ /\ CountUnseen(key[r]) \/ UNCHANGED <<redisVars, troubled>>
        /\ Goto(r, "auth") /\ Enter(r, "open")
  /\ UNCHANGED <<perMinute, clockVars, key, resent, lost>>

(* It was counted, but the reply is lost and the client sends it again; the  *)
(* model lets that happen once per counter.                                  *)
ResendIncr(r) ==
  /\ at[r] = "incr" /\ key[r] \notin resent
  /\ CountUnseen(key[r])
  /\ resent' = resent \cup {key[r]}
  /\ UNCHANGED <<perMinute, clockVars, at, key, entry, lost>>

(* Mutant: the window ends with half a minute. *)
WindowHalved == Minute \div 2

Window == Minute

(* EXPIRE, which does nothing to a key that is gone.  Its error is dropped.  *)
SetExpiry(r) ==
  /\ at[r] = "expire"
  /\ \/ /\ ends' = [ends EXCEPT ![key[r]] = IF count[key[r]] > 0 THEN now + Window ELSE @]
        /\ UNCHANGED troubled
     \/ UNCHANGED ends /\ troubled' = troubled \cup {key[r]}
  /\ Goto(r, "auth")
  /\ UNCHANGED <<perMinute, clockVars, count, key, entry, resent, lost>>

(* Time passes, and counters expire with it. *)
Expired(k) == ends[k] > 0 /\ ends[k] <= now + 1

Tick ==
  /\ now < MaxTime
  /\ now' = now + 1
  /\ minute' = IF now + 1 = minute + Minute THEN now + 1 ELSE minute
  /\ count' = [k \in Key |-> IF Expired(k) THEN 0 ELSE count[k]]
  /\ ends' = [k \in Key |-> IF Expired(k) THEN 0 ELSE ends[k]]
  /\ UNCHANGED <<perMinute, at, key, entry, limitHistory>>

RedisRestart ==
  /\ \E k \in Key : count[k] > 0
  /\ count' = [k \in Key |-> 0] /\ ends' = [k \in Key |-> 0]
  /\ lost' = lost \cup {k \in Key : count[k] > 0}
  /\ UNCHANGED <<perMinute, clockVars, at, key, entry, resent, troubled>>

-----------------------------------------------------------------------------
(* Properties *)

(* However the requests' two commands and the end of the minute fall, no     *)
(* more than perMinute requests of one address are let through on a counter  *)
(* of the minute they are made in, as long as Redis keeps it; those that     *)
(* pass because Redis failed come on top.                                    *)
WithinLimit ==
  \A k \in Key \ lost :
    perMinute > 0 =>
      Cardinality({r \in Request : key[r] = k /\ entry[r] = "counted"}) <= perMinute

(* A request is refused only when its address has made more than perMinute   *)
(* in that minute, or one of them was counted twice.                         *)
RefusedIsOverLimit ==
  \A r \in Request : entry[r] = "refused" =>
    \/ key[r] \in resent
    \/ Cardinality({s \in Request : key[s] = key[r]}) > perMinute

(* A counter without a time to live is about to get it, unless the very      *)
(* command that created it failed or was resent, or its EXPIRE failed: no    *)
(* failure of a later one, no overlap, expiry or loss leaves one for good.   *)
CountersEnd ==
  \A k \in Key : count[k] > 0 /\ ends[k] = 0 =>
    k \in troubled \/ \E r \in Request : at[r] = "expire" /\ key[r] = k

=============================================================================
