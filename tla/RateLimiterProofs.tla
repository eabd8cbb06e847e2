------------------------- MODULE RateLimiterProofs --------------------------
(* Proofs about the rate limiter, for any workers, entries, window, stall.  *)
EXTENDS RateLimiterHistory, TLAPS

USE StallAssumption, TimeAssumption, WindowAssumption

\* A pending reading is in the past, and at most the stall ago.
ReadingsFresh == \A w \in Caller : reading[w] # Idle => /\ reading[w] <= now
                                                        /\ now - reading[w] <= MaxStall

Inv == HTypeOK /\ RecordTracksGrants /\ ReadingsFresh

LEMMA InitInv == HInit => Inv
BY DEF HInit, Init, Inv, HTypeOK, TypeOK, RecordTracksGrants, ReadingsFresh, Idle, Never

\* A grant records a reading that is at most the stall old.
LEMMA AllowInv ==
  ASSUME Inv, NEW w \in Caller, NEW e \in Entry, HAllow(w, e)
  PROVE  Inv'
<1>1. /\ reading[w] \in 0..MaxTime
      /\ now \in 0..MaxTime
      /\ reading[w] <= now
      /\ now - reading[w] <= MaxStall
  BY DEF Inv, HTypeOK, TypeOK, ReadingsFresh, HAllow, Allow
<1>2. /\ lastFire' = [lastFire EXCEPT ![e] = reading[w]]
      /\ started' = [started EXCEPT ![e] = now]
      /\ reading' = [reading EXCEPT ![w] = Idle]
      /\ now' = now
  BY DEF HAllow, Allow
<1>3. HTypeOK'
  BY <1>1, <1>2 DEF Inv, HTypeOK, TypeOK
<1>4. RecordTracksGrants'
  <2> SUFFICES ASSUME NEW f \in Entry
               PROVE  /\ lastFire'[f] = Never <=> started'[f] = Never
                      /\ lastFire'[f] <= started'[f]
                      /\ started'[f] - lastFire'[f] <= MaxStall
    BY DEF RecordTracksGrants
  <2>1. CASE f = e
    <3>1. lastFire'[f] = reading[w] /\ started'[f] = now
      BY <1>2, <2>1 DEF Inv, HTypeOK, TypeOK
    <3> QED BY <1>1, <3>1 DEF Never
  <2>2. CASE f # e
    BY <1>2, <2>2 DEF Inv, HTypeOK, TypeOK, RecordTracksGrants
  <2> QED BY <2>1, <2>2
<1>5. ReadingsFresh'
  BY <1>2 DEF Inv, HTypeOK, TypeOK, ReadingsFresh
<1> QED BY <1>3, <1>4, <1>5 DEF Inv

\* The other steps change neither record nor history.
LEMMA ReadClockInv ==
  ASSUME Inv, NEW w \in Caller, ReadClock(w), UNCHANGED started
  PROVE  Inv'
BY DEF Inv, HTypeOK, TypeOK, RecordTracksGrants, ReadingsFresh, ReadClock

LEMMA DenyInv ==
  ASSUME Inv, NEW w \in Caller, NEW e \in Entry, Deny(w, e), UNCHANGED started
  PROVE  Inv'
BY DEF Inv, HTypeOK, TypeOK, RecordTracksGrants, ReadingsFresh, Deny

LEMMA TickInv ==
  ASSUME Inv, Tick, UNCHANGED started
  PROVE  Inv'
BY DEF Inv, HTypeOK, TypeOK, RecordTracksGrants, ReadingsFresh, Tick, Idle

LEMMA NextInv == Inv /\ [HNext]_hvars => Inv'
<1> SUFFICES ASSUME Inv, [HNext]_hvars PROVE Inv'
  OBVIOUS
<1>1. CASE UNCHANGED hvars
  BY <1>1 DEF Inv, HTypeOK, TypeOK, RecordTracksGrants, ReadingsFresh, hvars, vars
<1>2. CASE \E w \in Caller : ReadClock(w) /\ UNCHANGED started
  BY <1>2, ReadClockInv
<1>3. CASE \E w \in Caller, e \in Entry : HAllow(w, e)
  BY <1>3, AllowInv
<1>4. CASE \E w \in Caller, e \in Entry : Deny(w, e) /\ UNCHANGED started
  BY <1>4, DenyInv
<1>5. CASE Tick /\ UNCHANGED started
  BY <1>5, TickInv
<1> QED BY <1>1, <1>2, <1>3, <1>4, <1>5 DEF HNext

LEMMA SafetyInv == HSpec => []Inv
BY InitInv, NextInv, PTL DEF HSpec

\* The limiter's state has its declared shape: times stay on the clock.
THEOREM TypeCorrect == HSpec => []HTypeOK
<1>1. Inv => HTypeOK
  BY DEF Inv
<1> QED BY <1>1, SafetyInv, PTL

\* The recorded time of a grant lags the grant by at most the stall.
THEOREM RecordsTrackGrants == HSpec => []RecordTracksGrants
<1>1. Inv => RecordTracksGrants
  BY DEF Inv
<1> QED BY <1>1, SafetyInv, PTL

\* What one step may do to the starts: the body of StartsSpaced.
SpacedStep == \A e \in Entry :
                 started[e] # Never /\ lastFire'[e] # lastFire[e]
                    => started'[e] - started[e] >= Window - MaxStall

LEMMA SpacedNext == Inv /\ [HNext]_hvars => SpacedStep
<1> SUFFICES ASSUME Inv, HNext, NEW f \in Entry,
                    started[f] # Never, lastFire'[f] # lastFire[f]
             PROVE  started'[f] - started[f] >= Window - MaxStall
  BY DEF SpacedStep, hvars, vars
<1>1. PICK w \in Caller, e \in Entry : HAllow(w, e)
  BY DEF HNext, ReadClock, Deny, Tick
<1>2. f = e
  BY <1>1 DEF HAllow, Allow, Inv, HTypeOK, TypeOK
<1>3. started'[f] = now /\ lastFire[f] # Never
  BY <1>1, <1>2 DEF HAllow, Inv, HTypeOK, RecordTracksGrants
<1>4. reading[w] - lastFire[f] >= Window
  BY <1>1, <1>2, <1>3 DEF HAllow, Allow, TooSoon, Inv, HTypeOK, TypeOK, Never, Idle
<1>5. now >= reading[w] /\ started[f] - lastFire[f] <= MaxStall
  BY <1>1 DEF HAllow, Allow, Inv, RecordTracksGrants, ReadingsFresh
<1> QED BY <1>1, <1>3, <1>4, <1>5 DEF Inv, HTypeOK, TypeOK, HAllow, Allow, Never, Idle

\* S3 in real time: whatever the workers' interleaving, reconciles of one
\* skill on one object start at least Window - MaxStall apart.
THEOREM SpacingHolds == HSpec => StartsSpaced
<1>1. Inv /\ [HNext]_hvars
        => [\A e \in Entry : started[e] # Never /\ lastFire'[e] # lastFire[e]
              => started'[e] - started[e] >= Window - MaxStall]_hvars
  BY SpacedNext DEF SpacedStep
<1> QED BY <1>1, SafetyInv, PTL DEF HSpec, StartsSpaced
=============================================================================
