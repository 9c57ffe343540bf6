---------------------------- MODULE LoginLimiter ----------------------------
(***************************************************************************)
(* The login rate limiter (internal/webserver/security.go): per source      *)
(* address the times of the attempts let through, under one mutex, in the   *)
(* memory of the process.                                                   *)
(***************************************************************************)
EXTENDS Integers, FiniteSets

CONSTANTS Ips,     \* source addresses
          Limit,   \* attempts let through
          Window,  \* in any so many ticks
          MaxTime, \* bound: the clock's last tick
          Attempts \* identities of attempts: two may happen at one time

ASSUME LimiterAssumption == Limit \in Nat /\ Window \in Nat /\ MaxTime \in Nat

VARIABLES
  now,      \* the clock, read under the mutex
  attempts, \* the limiter's map: the attempts remembered per address
  admitted  \* history: the attempts let through per address since the start

limiterVars == <<now, attempts, admitted>>

At(a, t) == [id |-> a, time |-> t]

Recent(kept) == {x \in kept : x.time > now - Window}

\* Attempts are told apart by an id not used for this address before.
FreshAttempts(ip) == {a \in Attempts : \A x \in admitted[ip] : x.id # a}

\* Mutant: a full window lets one more through.
RoomOneMore(kept) == Cardinality(kept) <= Limit

Room(kept) == Cardinality(kept) < Limit

\* Forget what is out of the window, and let the attempt through if there is
\* room: an attempt that is turned away is not remembered.
Admit(ip) ==
  LET kept == Recent(attempts[ip]) IN
  /\ Room(kept)
  /\ \E a \in FreshAttempts(ip) :
       /\ attempts' = [attempts EXCEPT ![ip] = kept \cup {At(a, now)}]
       /\ admitted' = [admitted EXCEPT ![ip] = @ \cup {At(a, now)}]
  /\ UNCHANGED now

TurnAway(ip) ==
  LET kept == Recent(attempts[ip]) IN
  /\ ~Room(kept)
  /\ attempts' = [attempts EXCEPT ![ip] = kept]
  /\ UNCHANGED <<now, admitted>>

\* The process restarts: its memory is gone.
Restart ==
  /\ attempts' = [ip \in Ips |-> {}]
  /\ admitted' = [ip \in Ips |-> {}]
  /\ UNCHANGED now

Tick ==
  /\ now < MaxTime
  /\ now' = now + 1
  /\ UNCHANGED <<attempts, admitted>>

LimiterInit ==
  /\ now = 0
  /\ attempts = [ip \in Ips |-> {}]
  /\ admitted = [ip \in Ips |-> {}]

LimiterNext ==
  \/ \E ip \in Ips : Admit(ip) \/ TurnAway(ip)
  \/ Restart \/ Tick

LimiterSpec == LimiterInit /\ [][LimiterNext]_limiterVars

-----------------------------------------------------------------------------
(* Properties.                                                              *)

\* The clock is a number and only attempts are remembered.
LimiterTypeOK ==
  /\ now \in Nat
  /\ attempts \in [Ips -> SUBSET [id : Attempts, time : Nat]]
  /\ admitted \in [Ips -> SUBSET [id : Attempts, time : Nat]]

\* The attempts let through in the Window ticks that follow t.
Within(ip, t) == {x \in admitted[ip] : t < x.time /\ x.time <= t + Window}

\* Within any Window ticks, wherever they begin, no more than Limit attempts of
\* one address are let through while the process lives, although the limiter
\* forgets attempts and looks back only at the moment one arrives.
WindowBounded ==
  \A ip \in Ips, t \in -Window .. now : Cardinality(Within(ip, t)) <= Limit
=============================================================================
