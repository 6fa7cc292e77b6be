----------------------------- MODULE RateLimit -----------------------------
(***************************************************************************)
(* One rate limiter and the in-process store behind it (ratelimit.py), and  *)
(* the clock it reads.  Its hits run in the threads of the requests that    *)
(* are counted, over one dictionary and without a lock, and others run      *)
(* between any two of their steps: a hit reads the clock, sweeps when a     *)
(* sweep is due, reads the attempts of its key, and writes them back with   *)
(* its own.  What a module that extends this one does meanwhile, or with    *)
(* the verdict, is its own.                                                 *)
(***************************************************************************)
EXTENDS Naturals, Sequences

CONSTANTS
    Requests,      \* HTTP requests that may be in flight
    Keys,          \* what attempts are counted by
    Window,        \* window_seconds
    MaxAttempts,   \* max_attempts
    SweepEvery,    \* _SWEEP_INTERVAL_SECONDS
    MaxTime        \* bound: the last tick of the clock

ASSUME RateLimitAssumption ==
    /\ {Window, MaxAttempts, SweepEvery} \subseteq Nat \ {0}
    /\ MaxTime \in Nat \ {0}

VARIABLES
    now,           \* the clock
    hits,          \* _hits: the stamps of each key, <<>> for a key not there
    lastSweep,     \* _last_sweep, 0 for None
    hit            \* the hits under way

rateVars == <<now, hits, lastSweep, hit>>

Time == 1 .. MaxTime

\* A hit has read the clock; has found a sweep due; is past that, or has the
\* doomed keys still to delete; has read the attempts of its key.
Hit == [step: {"clocked", "due", "swept", "read"},
        key: Keys, at: Time, doomed: SUBSET Keys, recent: Seq(Time)]

NoHit == [step |-> "none"]

Hitting(r, step) == hit[r].step = step

RateInit ==
    /\ now = 1
    /\ hits = [k \in Keys |-> <<>>]
    /\ lastSweep = 0
    /\ hit = [r \in Requests |-> NoHit]

----------------------------------------------------------------------------
(* The sweep. *)

\* Mutant of Elapsed: a key is judged by the sweep's interval.
ElapsedBySweep(stamps, t) == stamps # <<>> /\ t - stamps[Len(stamps)] >= SweepEvery

\* Every attempt of the key is outside the window at t, if its stamps are in
\* order: the last one tells.
Elapsed(stamps, t) == stamps # <<>> /\ t - stamps[Len(stamps)] >= Window

SweepDue(t) == lastSweep # 0 /\ t - lastSweep >= SweepEvery

HitStart(r, k) ==
    /\ Hitting(r, "none")
    /\ hit' = [hit EXCEPT ![r] = [step |-> "clocked", key |-> k, at |-> now,
                                  doomed |-> {}, recent |-> <<>>]]
    /\ UNCHANGED <<now, hits, lastSweep>>

\* The first hit starts the interval.
SweepCheck(r) ==
    /\ Hitting(r, "clocked")
    /\ hit' = [hit EXCEPT ![r].step = IF SweepDue(hit[r].at) THEN "due" ELSE "swept"]
    /\ lastSweep' = IF lastSweep = 0 THEN hit[r].at ELSE lastSweep
    /\ UNCHANGED <<now, hits>>

\* The dictionary is listed: the keys to delete are judged by the stamps they
\* have now.
SweepList(r) ==
    /\ Hitting(r, "due")
    /\ lastSweep' = hit[r].at
    /\ hit' = [hit EXCEPT ![r].step = "swept",
                          ![r].doomed = {k \in Keys : Elapsed(hits[k], hit[r].at)}]
    /\ UNCHANGED <<now, hits>>

\* A key listed is deleted, with what it has by now.
SweepKey(r, k) ==
    /\ Hitting(r, "swept")
    /\ k \in hit[r].doomed
    /\ hits[k] # <<>>
    /\ hits' = [hits EXCEPT ![k] = <<>>]
    /\ hit' = [hit EXCEPT ![r].doomed = @ \ {k}]
    /\ UNCHANGED <<now, lastSweep>>

\* Another sweep has deleted it: the KeyError ends the request.
SweepBreaks(r) ==
    /\ Hitting(r, "swept")
    /\ \E k \in hit[r].doomed : hits[k] = <<>>
    /\ hit' = [hit EXCEPT ![r] = NoHit]
    /\ UNCHANGED <<now, hits, lastSweep>>

----------------------------------------------------------------------------
(* The count. *)

\* The attempts of a key that are in the window at t, among its first ones, by
\* how many these are.
KeptOfFirst(stamps, t) ==
    LET kept[n \in 0 .. Len(stamps)] ==
            IF n = 0 THEN <<>>
            ELSE IF t - stamps[n] < Window THEN Append(kept[n - 1], stamps[n])
            ELSE kept[n - 1]
    IN  kept

InWindow(stamps, t) == KeptOfFirst(stamps, t)[Len(stamps)]

HitRead(r) ==
    /\ Hitting(r, "swept")
    /\ hit[r].doomed = {}
    /\ hit' = [hit EXCEPT ![r].step = "read",
                          ![r].recent = InWindow(hits[hit[r].key], hit[r].at)]
    /\ UNCHANGED <<now, hits, lastSweep>>

Counted(r) == Append(hit[r].recent, hit[r].at)

\* Every attempt counts, the refused ones too.
HitWrite(r) ==
    /\ Hitting(r, "read")
    /\ hits' = [hits EXCEPT ![hit[r].key] = Counted(r)]
    /\ hit' = [hit EXCEPT ![r] = NoHit]
    /\ UNCHANGED <<now, lastSweep>>

\* check: the attempt just counted is under the limit.
Allowed(r) == Len(Counted(r)) <= MaxAttempts

\* The clock that r read is behind another hit on the key, or behind a sweep; or
\* the attempts it read are no longer those of the key.
Overtaken(r) ==
    \/ lastSweep > hit[r].at
    \/ \E i \in DOMAIN hit[r].recent : hit[r].recent[i] > hit[r].at
    \/ hit[r].recent # InWindow(hits[hit[r].key], hit[r].at)

Tick ==
    /\ now < MaxTime
    /\ now' = now + 1
    /\ UNCHANGED <<hits, lastSweep, hit>>

\* The store is in the process: a restart forgets every attempt.
RateRestart ==
    /\ hits' = [k \in Keys |-> <<>>]
    /\ lastSweep' = 0
    /\ hit' = [r \in Requests |-> NoHit]
    /\ UNCHANGED now

----------------------------------------------------------------------------
RateTypeOK ==
    /\ now \in Time
    /\ hits \in [Keys -> Seq(Time)]
    /\ lastSweep \in 0 .. now
    /\ hit \in [Requests -> Hit \cup {NoHit}]
=============================================================================
