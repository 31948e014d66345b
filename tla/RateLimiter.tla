----------------------------- MODULE RateLimiter -----------------------------
(***************************************************************************)
(* The limiter of the data plane: one Redis key that counts the requests    *)
(* of a window, and expires.  The script that counts is atomic.  Time goes  *)
(* on in ticks, of which a window has a whole number.                       *)
(***************************************************************************)
EXTENDS Naturals, Sequences

CONSTANTS
  Limit,  \* -redis-limiter-limit
  Window  \* -redis-limiter-window, in ticks

\* NewRedisLimiter refuses everything else.
ASSUME LimiterAssumption ==
  /\ Limit \in Nat \ {0}
  /\ Window \in Nat \ {0}

VARIABLES
  count,    \* value of the key, 0 if there is none; Limit + 1 for all above
  ttl,      \* ticks until the key expires, 0 if it does not
  admitted, \* history: uploads admitted in this tick and the ones before it
  unheard   \* history: replies lost on requests that the key has counted

limiterVars == <<count, ttl, admitted, unheard>>

\* How many of the uploads n, given per tick, were in the last k ticks.
InLast(n) ==
  LET sum[k \in 0 .. Window] == IF k = 0 THEN 0 ELSE sum[k - 1] + n[k] IN sum

LimiterInit ==
  /\ count = 0
  /\ ttl = 0
  /\ admitted = [k \in 1 .. Window |-> 0]
  /\ unheard = 0

\* Mutant of CountRequest: every request puts off the expiry.
CountRequestRenews ==
  /\ count' = IF count > Limit THEN count ELSE count + 1
  /\ ttl' = Window

\* INCR, and PEXPIRE by the request that finds no key.
CountRequest ==
  /\ count' = IF count > Limit THEN count ELSE count + 1
  /\ ttl' = IF count = 0 THEN Window ELSE ttl

Allow ==
  /\ count < Limit
  /\ CountRequest
  /\ admitted' = [admitted EXCEPT ![1] = @ + 1]
  /\ UNCHANGED unheard

\* ErrLimited; the request has been counted all the same.
Refuse ==
  /\ count >= Limit
  /\ CountRequest
  /\ UNCHANGED <<admitted, unheard>>

\* The call times out or fails, before the script has run or after it.
AllowFails ==
  /\ \/ CountRequest /\ unheard' = unheard + 1
     \/ UNCHANGED <<count, ttl, unheard>>
  /\ UNCHANGED admitted

Tick ==
  /\ ttl' = IF ttl = 0 THEN 0 ELSE ttl - 1
  /\ count' = IF ttl = 1 THEN 0 ELSE count
  /\ admitted' = [k \in 1 .. Window |-> IF k = 1 THEN 0 ELSE admitted[k - 1]]
  /\ UNCHANGED unheard
=============================================================================
