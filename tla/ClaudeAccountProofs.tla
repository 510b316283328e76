------------------------- MODULE ClaudeAccountProofs -------------------------
(***************************************************************************)
(* Proofs about the two parts of a Claude account's life that              *)
(* MCMachineLease checks together.                                         *)
(*                                                                         *)
(* The lease the sessions of a machine share (MachineLease), for every set *)
(* of processes and every bound, as long as no section outlasts the age of *)
(* its lock (~Slow), nobody acts between a look at a lock and its removal  *)
(* (~Torn), and no other owner takes an expired key under a running        *)
(* session (~Takeover):                                                    *)
(*   MachineTypeCorrect  every variable stays within its type;             *)
(*   Exclusive           one process at a time is in the section;          *)
(*   AllRecorded         the holder file counts every running session;     *)
(*   NeverBusy           no session finds its own machine's lease busy;    *)
(*   LastReleases        a release leaves no session that shares it;       *)
(*   MachineOwnership    the shared lease implements LeaseOwnership.       *)
(*                                                                         *)
(* What makes the account need a person (ClaudeReauth), for every set of   *)
(* workers, every assignment of commands to them and every bound:          *)
(*   ReauthTypeCorrect   the types; no token is newer than the last grant; *)
(*   MarkedForCause      a mark has its cause, on the login it is about;   *)
(*   RotationKept        an unpublished rotation is not written over.      *)
(***************************************************************************)
EXTENDS MachineLease, ClaudeReauth, TLAPS

(* A process in the section made the lock that stands, and nobody is about *)
(* to remove it as stale.                                                  *)
Locked ==
    \A p \in Proc : pc[p] \in Section =>
        /\ lock = p
        /\ \A q \in Proc : pc[q] # "remove"

(* A session that has joined and not ended. *)
Joined(p) == pc[p] = "run" \/ (pc[p] = "unlock" /\ after[p] = "run")

Recorded ==
    \A p \in Proc : Joined(p) =>
        /\ holder.token = token[p] /\ token[p] # NoToken
        /\ p \in holder.members

(* The key is the sessions' own or free. *)
KeyKept == \A p \in Proc : Joined(p) => key \in {token[p], NoToken}

(* What a process in the section has read is still so; it takes a new      *)
(* lease only when no session runs.                                        *)
ReadInv ==
    \A p \in Proc :
      /\ pc[p] \in {"join", "acquire", "write"} => seen[p] = holder
      /\ pc[p] = "join" => holder.token # NoToken
      /\ pc[p] = "acquire" => \A q \in Proc : ~Joined(q)
      /\ pc[p] = "write" =>
           /\ key \in {token[p], NoToken}
           /\ token[p] = holder.token \/ \A q \in Proc : ~Joined(q)

(* The token about to be released is nobody's, and not in the file. *)
ReleaseInv ==
    \A p \in Proc : pc[p] = "release" =>
        /\ holder.token # token[p]
        /\ \A q \in Proc : Joined(q) => token[q] # token[p]

(* Tokens come out of the counter, and a released one is not used again. *)
SpentInv ==
    /\ \A t \in spent : t <= minted
    /\ key <= minted /\ holder.token <= minted
    /\ \A p \in Proc : token[p] <= minted
    /\ holder.token \notin spent
    /\ \A p \in Proc : pc[p] = "write" => token[p] \notin spent

IInv == TypeOK /\ Locked /\ Recorded /\ KeyKept /\ ReadInv /\ ReleaseInv /\ SpentInv

-----------------------------------------------------------------------------
(* Every step preserves the invariant: one lemma per action, and in it one   *)
(* step per conjunct; the conjuncts the action cannot disturb go together.   *)

LEMMA StartStep ==
    ASSUME NEW p \in Proc, IInv, Start(p)
    PROVE  IInv'
<1>1. TypeOK'
  BY DEF IInv, Start, TypeOK, Goto, redis, Step
<1>2. (Locked /\ Recorded /\ KeyKept /\ ReadInv /\ ReleaseInv /\ SpentInv)'
  BY DEF IInv, Start, Locked, Recorded, KeyKept, ReadInv, ReleaseInv,
     SpentInv, Goto, Section, Joined, redis
<1> QED  BY <1>1, <1>2 DEF IInv

LEMMA LockStep ==
    ASSUME NEW p \in Proc, IInv, Lock(p), ~Torn
    PROVE  IInv'
<1>1. TypeOK'
  BY DEF IInv, Lock, TypeOK, Goto, redis, Step, Section
<1>2. Locked'
  BY ConstantsAssumption DEF IInv, Lock, Locked, Goto
<1>3. (Recorded /\ KeyKept /\ ReadInv /\ ReleaseInv /\ SpentInv)'
  BY DEF IInv, Lock, Recorded, KeyKept, ReadInv, ReleaseInv, SpentInv, Goto,
     Joined, redis
<1> QED  BY <1>1, <1>2, <1>3 DEF IInv

LEMMA FindStaleStep ==
    ASSUME NEW p \in Proc, IInv, FindStale(p), ~Slow
    PROVE  IInv'
<1>1. TypeOK'
  BY DEF IInv, FindStale, TypeOK, Goto, redis, Step
<1>2. Locked'
  BY DEF IInv, FindStale, Locked, TypeOK, Goto, Alive, Stale, Section
<1>3. (Recorded /\ KeyKept /\ ReadInv /\ ReleaseInv /\ SpentInv)'
  BY DEF IInv, FindStale, Recorded, KeyKept, ReadInv, ReleaseInv, SpentInv,
     Goto, Joined, redis
<1> QED  BY <1>1, <1>2, <1>3 DEF IInv

LEMMA RemoveStaleLockStep ==
    ASSUME NEW p \in Proc, IInv, RemoveStaleLock(p)
    PROVE  IInv'
<1>1. TypeOK'
  BY DEF IInv, RemoveStaleLock, TypeOK, Goto, redis, Step
<1>2. Locked'
  BY DEF IInv, RemoveStaleLock, Locked, TypeOK, Goto, Section
<1>3. (Recorded /\ KeyKept /\ ReadInv /\ ReleaseInv /\ SpentInv)'
  BY DEF IInv, RemoveStaleLock, Recorded, KeyKept, ReadInv, ReleaseInv,
     SpentInv, Goto, Joined, redis
<1> QED  BY <1>1, <1>2, <1>3 DEF IInv

LEMMA GiveUpStep ==
    ASSUME NEW p \in Proc, IInv, GiveUp(p)
    PROVE  IInv'
<1>1. TypeOK'
  BY DEF IInv, GiveUp, TypeOK, Goto, redis, Step
<1>2. (Locked /\ Recorded /\ KeyKept /\ ReadInv /\ ReleaseInv /\ SpentInv)'
  BY DEF IInv, GiveUp, Locked, Recorded, KeyKept, ReadInv, ReleaseInv,
     SpentInv, Goto, Section, Joined, redis
<1> QED  BY <1>1, <1>2 DEF IInv

LEMMA UnlockStep ==
    ASSUME NEW p \in Proc, IInv, Unlock(p)
    PROVE  IInv'
<1>1. TypeOK'
  BY DEF IInv, Unlock, TypeOK, Recorded, Goto, redis, Joined, Step
<1>2. Locked'
  BY DEF IInv, Unlock, Locked, TypeOK, Goto, Section
<1>3. ReadInv'
  BY DEF IInv, Unlock, ReadInv, TypeOK, Goto, redis, Joined
<1>4. ReleaseInv'
  BY DEF IInv, Unlock, ReleaseInv, TypeOK, Goto, Joined
<1>5. SpentInv'
  BY DEF IInv, Unlock, SpentInv, TypeOK, Goto, redis
<1>6. (Recorded /\ KeyKept)'
  BY DEF IInv, Unlock, Recorded, KeyKept, Goto, Joined, redis
<1> QED  BY <1>1, <1>2, <1>3, <1>4, <1>5, <1>6 DEF IInv

LEMMA ReadHolderStep ==
    ASSUME NEW p \in Proc, IInv, ReadHolder(p)
    PROVE  IInv'
<1>1. TypeOK'
  BY DEF IInv, ReadHolder, TypeOK, Goto, redis, Step, Section
<1>2. ReadInv'
  BY DEF IInv, ReadHolder, ReadInv, TypeOK, Recorded, Goto, redis, Joined
<1>3. (Locked /\ Recorded /\ KeyKept /\ ReleaseInv /\ SpentInv)'
  BY DEF IInv, ReadHolder, Locked, Recorded, KeyKept, ReleaseInv, SpentInv,
     Goto, Section, Joined, redis
<1> QED  BY <1>1, <1>2, <1>3 DEF IInv

LEMMA JoinStep ==
    ASSUME NEW p \in Proc, IInv, Join(p)
    PROVE  IInv'
<1>1. TypeOK'
  <2>1. seen[p] \in Holder BY DEF IInv, TypeOK
  <2>2. seen[p].token \in Token \cup {NoToken} BY <2>1 DEF Holder
  <2>3. Reclaims(seen[p].token) => seen[p].token # NoToken
    BY DEF IInv, Join, ReadInv
  <2>4. CASE Reclaims(seen[p].token)
    <3>1. /\ key' = seen[p].token
          /\ token' = [token EXCEPT ![p] = seen[p].token]
          /\ pc' = [pc EXCEPT ![p] = "write"]
          /\ UNCHANGED <<minted, spent, holder, lock, seen, after>>
      BY <2>4 DEF Join, Goto
    <3>2. seen[p].token \in Token BY <2>2, <2>3, <2>4
    <3>3. pc' \in [Proc -> Step] /\ token' \in [Proc -> Token \cup {NoToken}]
      BY <3>1, <3>2 DEF IInv, TypeOK, Step, Section
    <3>4. \A q \in Proc : pc'[q] \in {"write", "run", "stop", "leave", "release"} => token'[q] # NoToken
      BY <2>3, <2>4, <3>1 DEF IInv, TypeOK
    <3> QED BY <3>1, <3>2, <3>3, <3>4 DEF IInv, TypeOK
  <2>5. CASE ~Reclaims(seen[p].token)
    <3>1. /\ pc' = [pc EXCEPT ![p] = "acquire"]
          /\ UNCHANGED <<key, token, minted, spent, holder, lock, seen, after>>
      BY <2>5 DEF Join, Goto
    <3>2. pc' \in [Proc -> Step] BY <3>1 DEF IInv, TypeOK, Step, Section
    <3> QED BY <3>1, <3>2 DEF IInv, TypeOK
  <2> QED BY <2>4, <2>5
<1>2. Locked'
  BY DEF IInv, Join, Locked, TypeOK, Goto, Section
<1>3. Recorded'
  BY DEF IInv, Join, Recorded, TypeOK, Goto, Joined
<1>4. KeyKept'
  BY DEF IInv, Join, KeyKept, TypeOK, Recorded, ReadInv, Goto, Joined
<1>5. ReadInv'
  BY DEF IInv, Join, ReadInv, TypeOK, Locked, Recorded, KeyKept, Goto, Joined,
     Reclaims, Section
<1>6. ReleaseInv'
  BY DEF IInv, Join, ReleaseInv, TypeOK, Goto, Joined
<1>7. SpentInv'
  BY DEF IInv, Join, SpentInv, TypeOK, ReadInv, Goto
<1> QED  BY <1>1, <1>2, <1>3, <1>4, <1>5, <1>6, <1>7 DEF IInv

LEMMA AcquireStep ==
    ASSUME NEW p \in Proc, IInv, Acquire(p)
    PROVE  IInv'
<1>1. TypeOK'
  BY ConstantsAssumption DEF IInv, Acquire, TypeOK, Goto, Token, Step,
     Section, NoToken
<1>2. KeyKept'
  BY DEF IInv, Acquire, KeyKept, ReadInv, Goto, Joined
<1>3. ReadInv'
  BY DEF IInv, Acquire, ReadInv, TypeOK, Locked, Goto, Joined, Section
<1>4. SpentInv'
  <2>1. minted \in Nat /\ minted' = minted + 1 /\ key' = minted + 1
    BY DEF IInv, TypeOK, Acquire
  <2>2. spent' = spent /\ spent \subseteq Nat /\ \A t \in spent : t <= minted
    BY DEF IInv, TypeOK, SpentInv, Acquire, Token
  <2>3. holder' = holder /\ holder.token \in Nat /\ holder.token <= minted
    BY DEF IInv, TypeOK, SpentInv, Acquire, Holder, Token, NoToken
  <2>4. \A q \in Proc : token[q] \in Nat /\ token[q] <= minted
    BY DEF IInv, TypeOK, SpentInv, Token, NoToken
  <2>5. /\ \A q \in Proc : token'[q] = IF q = p THEN minted + 1 ELSE token[q]
        /\ \A q \in Proc \ {p} : pc'[q] = pc[q]
    BY <2>1 DEF IInv, TypeOK, Acquire, Goto
  <2>6. \A t \in spent' : t <= minted' /\ t # minted'
    BY <2>1, <2>2
  <2>7. key' <= minted' /\ holder'.token <= minted' /\ holder'.token \notin spent'
    BY <2>1, <2>2, <2>3 DEF IInv, SpentInv
  <2>8. \A q \in Proc : token'[q] <= minted'
    BY <2>1, <2>4, <2>5
  <2>9. \A q \in Proc : pc'[q] = "write" => token'[q] \notin spent'
    BY <2>1, <2>2, <2>5, <2>6 DEF IInv, SpentInv
  <2> QED  BY <2>6, <2>7, <2>8, <2>9 DEF SpentInv
<1>5. (Locked /\ Recorded /\ ReleaseInv)'
  BY DEF IInv, Acquire, Locked, Recorded, ReleaseInv, Goto, Section, Joined
<1> QED  BY <1>1, <1>2, <1>3, <1>4, <1>5 DEF IInv

LEMMA BusyStep ==
    ASSUME NEW p \in Proc, IInv, Busy(p)
    PROVE  IInv'
<1>1. TypeOK'
  BY DEF IInv, Busy, TypeOK, Goto, redis, Leads, Step, Section
<1>2. Recorded'
  BY DEF IInv, Busy, Recorded, TypeOK, Goto, Joined, Leads
<1>3. KeyKept'
  BY DEF IInv, Busy, KeyKept, TypeOK, Goto, redis, Joined, Leads
<1>4. ReadInv'
  BY DEF IInv, Busy, ReadInv, Locked, Goto, Joined, Leads, Section
<1>5. ReleaseInv'
  BY DEF IInv, Busy, ReleaseInv, Locked, Goto, Leads, Section
<1>6. (Locked /\ SpentInv)'
  BY DEF IInv, Busy, Locked, SpentInv, Goto, Leads, Section, redis
<1> QED  BY <1>1, <1>2, <1>3, <1>4, <1>5, <1>6 DEF IInv

LEMMA JoinThrowsStep ==
    ASSUME NEW p \in Proc, IInv, JoinThrows(p)
    PROVE  IInv'
<1>1. TypeOK'
  BY ConstantsAssumption DEF IInv, JoinThrows, TypeOK, Goto, Leads, Holder,
     Token, Step, Section
<1>2. Locked'
  BY DEF IInv, JoinThrows, Locked, Goto, Leads, Section
<1>3. Recorded'
  BY DEF IInv, JoinThrows, Recorded, TypeOK, Goto, Joined, Leads
<1>4. KeyKept'
  BY DEF IInv, JoinThrows, KeyKept, TypeOK, Recorded, ReadInv, Goto, Joined,
     Leads
<1>5. ReadInv'
  BY DEF IInv, JoinThrows, ReadInv, Locked, Goto, Joined, Leads, Section
<1>6. ReleaseInv'
  BY DEF IInv, JoinThrows, ReleaseInv, Locked, Goto, Leads, Section
<1>7. SpentInv'
  BY DEF IInv, JoinThrows, SpentInv, TypeOK, ReadInv, Goto, Leads, Holder,
     Token
<1> QED  BY <1>1, <1>2, <1>3, <1>4, <1>5, <1>6, <1>7 DEF IInv

LEMMA WriteStep ==
    ASSUME NEW p \in Proc, IInv, Write(p)
    PROVE  IInv'
<1>1. TypeOK'
  BY DEF IInv, Write, TypeOK, Goto, redis, Leads, Siblings, Holder, Step,
     Section
<1>2. Recorded'
  BY DEF IInv, Write, Recorded, TypeOK, ReadInv, Goto, Joined, Leads,
     Siblings, Alive
<1>3. KeyKept'
  BY DEF IInv, Write, KeyKept, ReadInv, Goto, redis, Joined, Leads
<1>4. ReadInv'
  BY DEF IInv, Write, ReadInv, TypeOK, Locked, Goto, Leads, Section
<1>5. ReleaseInv'
  BY DEF IInv, Write, ReleaseInv, Locked, Goto, Leads, Section
<1>6. (Locked /\ SpentInv)'
  BY DEF IInv, Write, Locked, SpentInv, Goto, Leads, Section, redis
<1> QED  BY <1>1, <1>2, <1>3, <1>4, <1>5, <1>6 DEF IInv

LEMMA ReclaimStep ==
    ASSUME NEW p \in Proc, IInv, Reclaim(p)
    PROVE  IInv'
<1>1. TypeOK'
  BY DEF IInv, Reclaim, TypeOK, local
<1>2. KeyKept'
  BY DEF IInv, Reclaim, KeyKept, Recorded, local, Joined
<1>3. ReadInv'
  BY DEF IInv, Reclaim, ReadInv, Recorded, local, Joined
<1>4. (Locked /\ Recorded /\ ReleaseInv /\ SpentInv)'
  BY DEF IInv, Reclaim, Locked, Recorded, ReleaseInv, SpentInv, local, Joined
<1> QED  BY <1>1, <1>2, <1>3, <1>4 DEF IInv

LEMMA EndStep ==
    ASSUME NEW p \in Proc, IInv, End(p)
    PROVE  IInv'
<1>1. TypeOK'
  BY DEF IInv, End, TypeOK, Goto, redis, Step
<1>2. (Locked /\ Recorded /\ KeyKept /\ ReadInv /\ ReleaseInv /\ SpentInv)'
  BY DEF IInv, End, Locked, Recorded, KeyKept, ReadInv, ReleaseInv, SpentInv,
     Goto, Section, Joined, redis
<1> QED  BY <1>1, <1>2 DEF IInv

LEMMA LeaveStep ==
    ASSUME NEW p \in Proc, IInv, Leave(p)
    PROVE  IInv'
<1>1. TypeOK'
  <2>1. holder' \in Holder
    BY DEF IInv, Leave, TypeOK, Siblings, OwnsHolder, Holder, NoHolder, NoToken
  <2>2. /\ pc' \in [Proc -> Step] /\ after' \in [Proc -> {"run", "gone"}]
        /\ pc'[p] \in {"unlock", "release"} /\ token[p] # NoToken
        /\ \A q \in Proc \ {p} : pc'[q] = pc[q]
    BY DEF IInv, Leave, TypeOK, Goto, Leads, Step, Section
  <2> QED  BY <2>1, <2>2 DEF IInv, Leave, TypeOK, redis
<1>2. Locked'
  BY DEF IInv, Leave, Locked, TypeOK, Goto, Leads, Section
<1>3. Recorded'
  BY DEF IInv, Leave, Recorded, TypeOK, Goto, Joined, Leads, Siblings, Alive,
     Holder
<1>4. KeyKept'
  BY DEF IInv, Leave, KeyKept, TypeOK, Goto, redis, Joined, Leads
<1>5. ReadInv'
  BY DEF IInv, Leave, ReadInv, TypeOK, Locked, Goto, Leads, Section
<1>6. ReleaseInv'
  BY DEF IInv, Leave, ReleaseInv, TypeOK, Locked, Recorded, Goto, Joined,
     Leads, Siblings, Alive, OwnsHolder, NoHolder, Section
<1>7. SpentInv'
  BY DEF IInv, Leave, SpentInv, TypeOK, Goto, redis, Leads, Holder, NoHolder,
     Token, NoToken
<1> QED  BY <1>1, <1>2, <1>3, <1>4, <1>5, <1>6, <1>7 DEF IInv

LEMMA ReleaseStep ==
    ASSUME NEW p \in Proc, IInv, Release(p)
    PROVE  IInv'
<1>1. TypeOK'
  BY DEF IInv, Release, TypeOK, Goto, Leads, Step, Section
<1>2. Locked'
  BY DEF IInv, Release, Locked, Goto, Leads, Section
<1>3. Recorded'
  BY DEF IInv, Release, Recorded, TypeOK, Goto, Joined, Leads
<1>4. KeyKept'
  BY DEF IInv, Release, KeyKept, TypeOK, Goto, Joined, Leads
<1>5. ReadInv'
  BY DEF IInv, Release, ReadInv, Locked, Goto, Leads, Section
<1>6. ReleaseInv'
  BY DEF IInv, Release, ReleaseInv, Locked, Goto, Joined, Leads, Section
<1>7. SpentInv'
  BY DEF IInv, Release, SpentInv, TypeOK, Locked, ReleaseInv, Goto, Leads,
     Section, NoToken
<1> QED  BY <1>1, <1>2, <1>3, <1>4, <1>5, <1>6, <1>7 DEF IInv

LEMMA ReleaseThrowsStep ==
    ASSUME NEW p \in Proc, IInv, ReleaseThrows(p)
    PROVE  IInv'
<1>1. TypeOK'
  BY DEF IInv, ReleaseThrows, TypeOK, Goto, redis, Leads, Step, Section
<1>2. Recorded'
  BY DEF IInv, ReleaseThrows, Recorded, TypeOK, Goto, Joined, Leads
<1>3. KeyKept'
  BY DEF IInv, ReleaseThrows, KeyKept, TypeOK, Goto, redis, Joined, Leads
<1>4. ReadInv'
  BY DEF IInv, ReleaseThrows, ReadInv, Locked, Goto, Leads, Section
<1>5. ReleaseInv'
  BY DEF IInv, ReleaseThrows, ReleaseInv, Locked, Goto, Joined, Leads, Section
<1>6. (Locked /\ SpentInv)'
  BY DEF IInv, ReleaseThrows, Locked, SpentInv, Goto, Leads, Section, redis
<1> QED  BY <1>1, <1>2, <1>3, <1>4, <1>5, <1>6 DEF IInv

LEMMA CrashStep ==
    ASSUME NEW p \in Proc, IInv, Crash(p)
    PROVE  IInv'
<1>1. TypeOK'
  BY DEF IInv, Crash, TypeOK, Goto, redis, Step
<1>2. (Locked /\ Recorded /\ KeyKept /\ ReadInv /\ ReleaseInv /\ SpentInv)'
  BY DEF IInv, Crash, Locked, Recorded, KeyKept, ReadInv, ReleaseInv,
     SpentInv, Goto, Section, Joined, redis
<1> QED  BY <1>1, <1>2 DEF IInv

LEMMA LapseStep ==
    ASSUME IInv, Lapse
    PROVE  IInv'
<1>1. TypeOK'
  BY DEF IInv, Lapse, TypeOK, local
<1>2. SpentInv'
  BY DEF IInv, Lapse, SpentInv, TypeOK, local, NoToken
<1>3. (Locked /\ Recorded /\ KeyKept /\ ReadInv /\ ReleaseInv)'
  BY DEF IInv, Lapse, Locked, Recorded, KeyKept, ReadInv, ReleaseInv, local,
     Joined
<1> QED  BY <1>1, <1>2, <1>3 DEF IInv

LEMMA OthersStep ==
    ASSUME IInv, Others, ~Takeover
    PROVE  IInv'
<1>1. TypeOK'
  BY ConstantsAssumption DEF IInv, Others, TypeOK, local, Token
<1>2. SpentInv'
  BY DEF IInv, Others, SpentInv, TypeOK, local, Holder, Token
<1>3. (Locked /\ Recorded /\ KeyKept /\ ReadInv /\ ReleaseInv)'
  BY DEF IInv, Others, Locked, Recorded, KeyKept, ReadInv, ReleaseInv, local,
     Joined, Keeps
<1> QED  BY <1>1, <1>2, <1>3 DEF IInv

-----------------------------------------------------------------------------
(* The invariant, and the properties it gives                                *)

LEMMA InitInv == Init => IInv
  BY ConstantsAssumption
     DEF Init, IInv, TypeOK, Locked, Recorded, KeyKept, ReadInv, ReleaseInv,
         SpentInv, Joined, Section, Step, Holder, NoHolder, Token, NoToken

LEMMA StepInv ==
    ASSUME ~Slow, ~Torn, ~Takeover, IInv, [Next]_vars
    PROVE  IInv'
<1>1. ASSUME NEW p \in Proc,
             \/ Start(p) \/ Lock(p) \/ FindStale(p) \/ RemoveStaleLock(p) \/ GiveUp(p) \/ Unlock(p)
             \/ ReadHolder(p) \/ Join(p) \/ Acquire(p) \/ Busy(p) \/ JoinThrows(p)
             \/ Write(p) \/ Reclaim(p) \/ End(p) \/ Leave(p) \/ Release(p)
             \/ ReleaseThrows(p) \/ Crash(p)
      PROVE  IInv'
  BY <1>1, StartStep, LockStep, FindStaleStep, RemoveStaleLockStep, GiveUpStep, UnlockStep,
     ReadHolderStep, JoinStep, AcquireStep, BusyStep, JoinThrowsStep, WriteStep,
     ReclaimStep, EndStep, LeaveStep, ReleaseStep, ReleaseThrowsStep, CrashStep
<1>2. CASE Lapse
  BY <1>2, LapseStep
<1>3. CASE Others
  BY <1>3, OthersStep
<1>4. CASE UNCHANGED vars
  BY <1>4
     DEF vars, redis, local, IInv, TypeOK, Locked, Recorded, KeyKept, ReadInv,
         ReleaseInv, SpentInv, Joined
<1> QED  BY <1>1, <1>2, <1>3, <1>4 DEF Next

THEOREM MachineInvariant ==
    ASSUME ~Slow, ~Torn, ~Takeover
    PROVE  Spec => []IInv
<1>1. IInv /\ [Next]_vars => IInv'
  BY StepInv
<1> QED  BY InitInv, <1>1, PTL DEF Spec

(* Every variable stays within its type, and a session that has joined has *)
(* a token until its release.                                              *)
THEOREM MachineTypeCorrect ==
    ASSUME ~Slow, ~Torn, ~Takeover
    PROVE  Spec => []TypeOK
<1>1. IInv => TypeOK
  BY DEF IInv
<1> QED  BY <1>1, MachineInvariant, PTL

(* The lock directory excludes: stale locks are removed, and sections end, *)
(* without letting two processes in.                                       *)
THEOREM Exclusive ==
    ASSUME ~Slow, ~Torn, ~Takeover
    PROVE  Spec => []OneInSection
<1>1. IInv => OneInSection
  BY DEF IInv, Locked, OneInSection
<1> QED  BY <1>1, MachineInvariant, PTL

(* No interleaving of joins, leaves and crashes loses a running session    *)
(* from the holder file.                                                   *)
THEOREM AllRecorded ==
    ASSUME ~Slow, ~Torn, ~Takeover
    PROVE  Spec => []SessionsRecorded
<1>1. IInv => SessionsRecorded
  BY DEF IInv, Recorded, SessionsRecorded, Joined
<1> QED  BY <1>1, MachineInvariant, PTL

(* A session is never refused because of a session of its own machine.     *)
THEOREM NeverBusy ==
    ASSUME ~Slow, ~Torn, ~Takeover
    PROVE  Spec => NotBusyToItself
<1>1. IInv => \A p, q \in Proc : Busy(p) => pc[q] # "run"
  BY DEF IInv, ReadInv, Busy, Joined
<1> QED  BY <1>1, MachineInvariant, PTL DEF NotBusyToItself

(* The lease is released by the last session that shares it.               *)
THEOREM LastReleases ==
    ASSUME ~Slow, ~Torn, ~Takeover
    PROVE  Spec => ReleasedByLast
<1>1. IInv => \A p \in Proc : Release(p) =>
          \A q \in Proc \ {p} : pc[q] = "run" => token[q] # token[p]
  BY DEF IInv, ReleaseInv, Release, Joined
<1> QED  BY <1>1, MachineInvariant, PTL DEF ReleasedByLast

-----------------------------------------------------------------------------
(* The refinement: the key and the released tokens move as LeaseOwnership    *)
(* lets them.                                                                *)

LEMMA TakeFresh ==
    ASSUME IInv, key = NoToken, minted < MaxToken, minted' = minted + 1, key' = minted', spent' = spent
    PROVE  Ownership!Next
<1>1. minted' \in Token /\ minted' \notin spent
  <2>1. minted \in Nat /\ spent \subseteq Nat /\ \A t \in spent : t <= minted
    BY DEF IInv, TypeOK, SpentInv, Token
  <2> QED  BY <2>1, ConstantsAssumption DEF Token
<1> QED  BY <1>1 DEF Ownership!Next, Ownership!Take

LEMMA TakeHeld ==
    ASSUME IInv, holder.token # NoToken, key \in {holder.token, NoToken}, key' = holder.token, spent' = spent
    PROVE  [Ownership!Next]_Ownership!vars
<1>1. holder.token \in Token /\ holder.token \notin spent
  BY DEF IInv, TypeOK, Holder, SpentInv
<1>2. CASE key = NoToken
  BY <1>1, <1>2 DEF Ownership!Next, Ownership!Take
<1>3. CASE key = holder.token
  BY <1>3 DEF Ownership!vars
<1> QED  BY <1>2, <1>3

LEMMA OwnershipStep ==
    ASSUME ~Slow, ~Torn, ~Takeover, IInv, [Next]_vars
    PROVE  [Ownership!Next]_Ownership!vars
<1>1. ASSUME NEW p \in Proc, Join(p)
      PROVE  [Ownership!Next]_Ownership!vars
  <2>1. pc[p] = "join" /\ seen[p] = holder /\ holder.token # NoToken /\ spent' = spent
    BY <1>1 DEF Join, IInv, ReadInv
  <2>2. CASE Reclaims(seen[p].token)
    BY <1>1, <2>1, <2>2, TakeHeld DEF Join, Reclaims
  <2>3. CASE ~Reclaims(seen[p].token)
    BY <1>1, <2>3 DEF Join, Ownership!vars
  <2> QED  BY <2>2, <2>3
<1>2. ASSUME NEW p \in Proc, Acquire(p)
      PROVE  [Ownership!Next]_Ownership!vars
  BY <1>2, TakeFresh DEF Acquire
<1>3. ASSUME NEW p \in Proc, JoinThrows(p)
      PROVE  [Ownership!Next]_Ownership!vars
  <2>1. spent' = spent /\ (pc[p] = "join" => seen[p] = holder /\ holder.token # NoToken)
    BY <1>3 DEF JoinThrows, IInv, ReadInv
  <2>2. CASE UNCHANGED <<key, minted>>
    BY <2>1, <2>2 DEF Ownership!vars
  <2>3. CASE pc[p] = "join" /\ Reclaims(seen[p].token) /\ key' = seen[p].token
    BY <2>1, <2>3, TakeHeld DEF Reclaims
  <2>4. CASE key = NoToken /\ minted < MaxToken /\ minted' = minted + 1 /\ key' = minted'
    BY <2>1, <2>4, TakeFresh
  <2> QED  BY <1>3, <2>2, <2>3, <2>4 DEF JoinThrows
<1>4. ASSUME NEW p \in Proc, Reclaim(p)
      PROVE  [Ownership!Next]_Ownership!vars
  <2>1. token[p] = holder.token /\ token[p] # NoToken
    BY <1>4 DEF Reclaim, IInv, Recorded, Joined
  <2> QED  BY <1>4, <2>1, TakeHeld DEF Reclaim
<1>5. ASSUME NEW p \in Proc, Release(p)
      PROVE  [Ownership!Next]_Ownership!vars
  <2>1. token[p] \in Token
    BY <1>5 DEF Release, IInv, TypeOK
  <2> QED  BY <1>5, <2>1 DEF Release, Ownership!Next, Ownership!Free
<1>6. CASE Lapse
  BY <1>6 DEF Lapse, Ownership!Next, Ownership!Lapse
<1>7. CASE Others
  BY <1>7, TakeFresh DEF Others
<1>8. CASE UNCHANGED <<key, spent>>
  BY <1>8 DEF Ownership!vars
<1>9. ASSUME NEW p \in Proc,
             \/ Start(p) \/ Lock(p) \/ FindStale(p) \/ RemoveStaleLock(p) \/ GiveUp(p) \/ Unlock(p)
             \/ ReadHolder(p) \/ Busy(p) \/ Write(p) \/ End(p) \/ Leave(p)
             \/ ReleaseThrows(p) \/ Crash(p)
      PROVE  UNCHANGED <<key, spent>>
  BY <1>9 DEF Start, Lock, FindStale, RemoveStaleLock, GiveUp, Unlock, ReadHolder, Busy, Write,
     End, Leave, ReleaseThrows, Crash, redis
<1> QED
  BY <1>1, <1>2, <1>3, <1>4, <1>5, <1>6, <1>7, <1>8, <1>9 DEF Next, vars, redis

(* The lease the sessions of a machine share is a lease: LeaseOwnership.    *)
THEOREM MachineOwnership ==
    ASSUME ~Slow, ~Torn, ~Takeover
    PROVE  Spec => OwnershipSpec
<1>1. Init => Ownership!Init
  BY DEF Init, Ownership!Init
<1>2. IInv /\ [Next]_vars => [Ownership!Next]_Ownership!vars
  BY OwnershipStep
<1> QED  BY <1>1, <1>2, MachineInvariant, PTL DEF Spec, OwnershipSpec, Ownership!Spec

-----------------------------------------------------------------------------
(* What makes an account need a person (ClaudeReauth).                      *)

Entries ==
    [token : 0 .. MaxLogin, blocked : BOOLEAN,
     streak : [kind : Kind \cup {"none"}, age : 0 .. Window]]

Stages == {"idle", "reload", "admit", "preflight", "project", "launch", "run", "sync",
           "judge", "assert", "publish", "refresh", "open", "browser", "collect", "reread"}

WorkersTyped ==
    /\ at \in [Worker -> Stages]
    /\ duty \in [Worker -> {"none", "maintain", "login", "capture"}]
    /\ copy \in [Worker -> Entries] /\ draft \in [Worker -> Entries]
    /\ stale \in [Worker -> BOOLEAN]
    /\ then \in [Worker -> {"free", "project", "judge"}]
    /\ found \in [Worker -> [exit : {"none", "ok", "client", "local", "infrastructure"},
                             left : {"none", "empty", "candidate", "same", "bad"}]]
    /\ own \in [Worker -> 0 .. MaxLogin]

\* No token is newer than the last one granted.
ReauthTypeOK ==
    /\ entry \in Entries /\ claim \in Worker \cup {NoWorker}
    /\ granted \in 1 .. MaxLogin /\ working \subseteq 1 .. granted
    /\ disk \in 0 .. granted /\ staged \in 0 .. granted
    /\ WorkersTyped /\ lapsed \in BOOLEAN
    /\ entry.token <= granted
    /\ \A p \in Worker :
         copy[p].token <= granted /\ draft[p].token <= granted /\ own[p] <= granted

(* A worker at its step has a command of that kind; only a pass marks the   *)
(* record, or goes on after a publication, of a newer token of the login it *)
(* has read; and it works on a login that is not marked.                    *)
CommandInv(p) ==
    /\ at[p] = "idle" <=> duty[p] = "none"
    /\ at[p] \in {"preflight", "project", "launch", "run", "sync", "judge", "refresh"} =>
         duty[p] = "maintain" /\ own[p] # 0
    /\ at[p] \in {"open", "browser", "collect", "reread"} => duty[p] = "login"
    /\ duty[p] # "maintain" => then[p] = "free" /\ ~draft[p].blocked
    /\ duty[p] = "maintain" /\ at[p] \notin {"reload", "admit"} => ~copy[p].blocked
    /\ at[p] \in {"assert", "publish"} /\ then[p] # "free" =>
         draft[p] = [copy[p] EXCEPT !.token = draft[p].token] /\ draft[p].token # 0
    /\ at[p] = "refresh" => then[p] # "free"
    /\ at[p] \in {"assert", "publish", "refresh"} /\ then[p] = "judge" =>
         found[p].left = "candidate"

(* A pass that has its lease, or that has just been told so. *)
Covered(p) == duty[p] = "maintain" /\ (claim = p \/ at[p] = "publish")

(* The cause for which p marks the login it read. *)
Cause(p) ==
    \/ copy[p].token \notin working
    \/ /\ copy[p].streak # NoStreak /\ copy[p].streak.age >= Window
       /\ draft[p].streak = copy[p].streak

(* What such a pass has read is the record, unless the record was written   *)
(* since, which only a command that lost its lease in the middle of its own *)
(* publication can do; the managed storage holds the login it read, unless  *)
(* that one is spent.                                                       *)
PassInv(p) == Covered(p) =>
    /\ at[p] \notin {"idle", "reload", "refresh"} => own[p] = copy[p].token
    /\ at[p] \notin {"idle", "reload", "refresh"} /\ ~stale[p] => copy[p] = entry
    /\ at[p] = "refresh" =>
         /\ ~stale[p] /\ entry = [copy[p] EXCEPT !.token = own[p]]
         /\ \A q \in Worker \ {p} : at[q] = "publish" => stale[q]
    /\ at[p] \in {"launch", "run", "sync"} => disk = own[p] \/ own[p] \notin working
    /\ at[p] = "judge" /\ found[p].left = "empty" => own[p] \notin working
    /\ at[p] \in {"assert", "publish"} /\ draft[p].blocked =>
         draft[p].token = copy[p].token /\ Cause(p)

(* As long as leases last, a worker has its lease, and a pass writes over   *)
(* the managed storage what is in it or newer.                              *)
LastingInv(p) ==
    /\ at[p] # "idle" => claim = p
    /\ duty[p] = "maintain" /\ at[p] \notin {"idle", "reload"} => ~stale[p]
    /\ at[p] = "project" => disk <= own[p]
    /\ at[p] \in {"launch", "run"} => disk = own[p]
    /\ then[p] = "project" =>
         /\ at[p] \in {"assert", "publish"} => draft[p].token = disk
         /\ at[p] = "refresh" => own[p] = disk

ReauthInv ==
    /\ ReauthTypeOK
    /\ \A p \in Worker : CommandInv(p) /\ PassInv(p)
    /\ ~lapsed => \A p \in Worker : LastingInv(p)

-----------------------------------------------------------------------------
(* The workers and the record.                                              *)

LEMMA BlankTyped ==
    /\ Blank \in Entries /\ Blank.token = 0 /\ Blank.blocked = FALSE
    /\ NoStreak.kind = "none" /\ NoStreak.age = 0
    /\ Nothing.exit = "none" /\ Nothing.left = "none"
    /\ Nothing \in [exit : {"none", "ok", "client", "local", "infrastructure"},
                    left : {"none", "empty", "candidate", "same", "bad"}]
<1>1. 0 \in 0 .. Window /\ 0 \in 0 .. MaxLogin /\ FALSE \in BOOLEAN
  BY ReauthAssumption
<1>2. NoStreak \in [kind : Kind \cup {"none"}, age : 0 .. Window]
  BY <1>1 DEF NoStreak
<1>3. Blank \in Entries
  BY <1>1, <1>2 DEF Blank, Entries
<1> QED  BY <1>3 DEF Blank, NoStreak, Nothing

LEMMA EntryParts ==
    ASSUME NEW e \in Entries
    PROVE  /\ e.token \in 0 .. MaxLogin /\ e.token \in Nat /\ e.blocked \in BOOLEAN
           /\ e.streak \in [kind : Kind \cup {"none"}, age : 0 .. Window]
           /\ e.streak.age \in Nat /\ e.streak = [kind |-> e.streak.kind, age |-> e.streak.age]
BY ReauthAssumption DEF Entries

LEMMA Retokened ==
    ASSUME NEW e \in Entries, NEW t \in 0 .. MaxLogin
    PROVE  /\ [e EXCEPT !.token = t] \in Entries /\ [e EXCEPT !.token = t].token = t
           /\ [e EXCEPT !.token = t].blocked = e.blocked
           /\ [e EXCEPT !.token = t].streak = e.streak
           /\ t = e.token => [e EXCEPT !.token = t] = e
BY DEF Entries

LEMMA EnrolledParts ==
    ASSUME NEW t \in 0 .. MaxLogin
    PROVE  Enrolled(t) \in Entries /\ Enrolled(t).token = t /\ ~Enrolled(t).blocked
<1>1. Enrolled(t) = [Blank EXCEPT !.token = t]
  BY DEF Enrolled
<1>2. Blank \in Entries /\ Blank.blocked = FALSE
  BY BlankTyped
<1> QED  BY <1>1, <1>2, Retokened

LEMMA ReauthTyped ==
    ASSUME ReauthTypeOK
    PROVE  /\ WorkersTyped /\ entry \in Entries /\ claim \in Worker \cup {NoWorker}
           /\ granted \in 1 .. MaxLogin /\ granted \in Nat /\ MaxLogin \in Nat
           /\ working \subseteq 1 .. granted /\ 0 \notin working
           /\ disk \in 0 .. granted /\ disk \in 0 .. MaxLogin /\ disk \in Nat
           /\ staged \in 0 .. granted /\ staged \in 0 .. MaxLogin
           /\ entry.token \in 0 .. MaxLogin /\ entry.token \in Nat /\ entry.token <= granted
           /\ \A p \in Worker :
                /\ copy[p] \in Entries /\ draft[p] \in Entries /\ own[p] \in 0 .. MaxLogin
                /\ copy[p].token \in Nat /\ draft[p].token \in Nat /\ own[p] \in Nat
                /\ copy[p].token <= granted /\ draft[p].token <= granted /\ own[p] <= granted
                /\ p # NoWorker
<1>1. WorkersTyped /\ entry \in Entries /\ claim \in Worker \cup {NoWorker}
      /\ granted \in 1 .. MaxLogin /\ working \subseteq 1 .. granted
      /\ disk \in 0 .. granted /\ staged \in 0 .. granted /\ entry.token <= granted
  BY DEF ReauthTypeOK
<1>2. MaxLogin \in Nat /\ granted \in Nat /\ disk \in 0 .. MaxLogin /\ disk \in Nat
      /\ staged \in 0 .. MaxLogin /\ 0 \notin working
  BY <1>1, ReauthAssumption
<1>3. entry.token \in 0 .. MaxLogin /\ entry.token \in Nat
  BY <1>1, EntryParts
<1>4. ASSUME NEW p \in Worker
      PROVE  /\ copy[p] \in Entries /\ draft[p] \in Entries /\ own[p] \in 0 .. MaxLogin
             /\ copy[p].token <= granted /\ draft[p].token <= granted /\ own[p] <= granted
             /\ p # NoWorker
  BY <1>1, ReauthAssumption DEF ReauthTypeOK, WorkersTyped
<1>5. ASSUME NEW p \in Worker
      PROVE  copy[p].token \in Nat /\ draft[p].token \in Nat /\ own[p] \in Nat
  <2>1. copy[p] \in Entries /\ draft[p] \in Entries /\ own[p] \in 0 .. MaxLogin
    BY <1>4
  <2>2. copy[p].token \in Nat /\ draft[p].token \in Nat
    BY <2>1, EntryParts
  <2> QED  BY <1>2, <2>1, <2>2
<1> QED  BY <1>1, <1>2, <1>3, <1>4, <1>5

\* The other workers are where they were.
Rest(p) ==
    \A q \in Worker \ {p} :
        /\ at'[q] = at[q] /\ duty'[q] = duty[q] /\ copy'[q] = copy[q] /\ draft'[q] = draft[q]
        /\ then'[q] = then[q] /\ found'[q] = found[q] /\ own'[q] = own[q]

\* p gives its lease up, takes a free one, or leaves another's alone.
Leases(p) ==
    claim' = claim \/ (claim \in {p, NoWorker} /\ claim' \in {p, NoWorker})

LEMMA Freed ==
    ASSUME WorkersTyped, NEW p \in Worker, Free(p), stale' \in [Worker -> BOOLEAN],
           claim \in Worker \cup {NoWorker}
    PROVE  /\ WorkersTyped' /\ Rest(p) /\ Leases(p)
           /\ at'[p] = "idle" /\ duty'[p] = "none" /\ then'[p] = "free"
           /\ copy'[p] = Blank /\ draft'[p] = Blank /\ own'[p] = 0
           /\ claim' # p /\ (claim' = claim \/ claim' = NoWorker)
<1>1. 0 \in 0 .. MaxLogin /\ p # NoWorker
  BY ReauthAssumption
<1>2. WorkersTyped'
  BY <1>1, BlankTyped DEF WorkersTyped, Free, Put, Stages
<1>3. Rest(p)
  BY DEF WorkersTyped, Free, Put, Rest
<1>4. /\ at'[p] = "idle" /\ duty'[p] = "none" /\ then'[p] = "free"
      /\ copy'[p] = Blank /\ draft'[p] = Blank /\ own'[p] = 0
  BY DEF WorkersTyped, Free, Put
<1>5. Leases(p) /\ claim' # p /\ (claim' = claim \/ claim' = NoWorker)
  BY <1>1 DEF Free, Leases
<1> QED  BY <1>2, <1>3, <1>4, <1>5

\* A worker moves to another step with what it knows, but for what is named.
LEMMA Moved ==
    ASSUME WorkersTyped, NEW p \in Worker, NEW s \in Stages, Put(p, s),
           UNCHANGED <<duty, copy, draft, then, found, own>>, stale' \in [Worker -> BOOLEAN]
    PROVE  /\ WorkersTyped' /\ Rest(p) /\ at'[p] = s /\ duty'[p] = duty[p]
           /\ copy'[p] = copy[p] /\ draft'[p] = draft[p] /\ then'[p] = then[p]
           /\ found'[p] = found[p] /\ own'[p] = own[p]
BY DEF WorkersTyped, Put, Rest

LEMMA Submitted ==
    ASSUME WorkersTyped, NEW p \in Worker, NEW r \in Entries, NEW s \in {"free", "project", "judge"},
           Submit(p, r, s), UNCHANGED <<duty, copy, own>>, stale' \in [Worker -> BOOLEAN],
           found' = found \/ (\E l \in {"none", "empty", "candidate", "same", "bad"} :
                                found' = [found EXCEPT ![p].left = l])
    PROVE  /\ WorkersTyped' /\ Rest(p) /\ at'[p] = "assert" /\ duty'[p] = duty[p]
           /\ copy'[p] = copy[p] /\ draft'[p] = r /\ then'[p] = s /\ own'[p] = own[p]
<1>1. found' \in [Worker -> [exit : {"none", "ok", "client", "local", "infrastructure"},
                             left : {"none", "empty", "candidate", "same", "bad"}]]
      /\ \A q \in Worker \ {p} : found'[q] = found[q]
  <2> DEFINE R == [exit : {"none", "ok", "client", "local", "infrastructure"},
                   left : {"none", "empty", "candidate", "same", "bad"}]
  <2>1. found \in [Worker -> R] /\ found[p] \in R
    BY DEF WorkersTyped
  <2>2. \A l \in {"none", "empty", "candidate", "same", "bad"} : [found[p] EXCEPT !.left = l] \in R
    BY <2>1
  <2>3. found' = found \/ \E v \in R : found' = [found EXCEPT ![p] = v]
    BY <2>2
  <2> HIDE DEF R
  <2>4. found' \in [Worker -> R] /\ \A q \in Worker \ {p} : found'[q] = found[q]
    BY <2>1, <2>3
  <2> QED  BY <2>4 DEF R
<1> QED  BY <1>1 DEF WorkersTyped, Submit, Put, Rest, Stages

LEMMA Lease ==
    ASSUME NEW p \in Worker, UnderLease(p)
    PROVE  /\ claim' = p /\ Leases(p) /\ claim \in {p, NoWorker}
           /\ duty[p] = "maintain" => claim = p
BY DEF UnderLease, Holds, HeldStrictly, Leases

LEMMA AgainstFacts ==
    ASSUME NEW t \in Nat, NEW m \in Nat
    PROVE  /\ Against(t, m) \in {"empty", "candidate", "same", "bad"}
           /\ Against(t, m) = "candidate" => t # 0 /\ t > m
           /\ Against(t, m) # "candidate" => t <= m \/ t = 0
           /\ Against(t, m) = "empty" => t = 0
<1>1. CASE t = 0
  BY <1>1 DEF Against
<1>2. CASE t # 0 /\ t > m
  BY <1>2 DEF Against
<1>3. CASE t # 0 /\ t = m
  BY <1>3 DEF Against
<1>4. CASE t # 0 /\ t < m
  BY <1>4 DEF Against
<1> QED  BY <1>1, <1>2, <1>3, <1>4

-----------------------------------------------------------------------------
(* What a step of one worker means for the others.                          *)

\* The worker's lease, its publications, the tokens it spends and what it
\* leaves in the managed storage.
Effect(p) ==
    /\ Rest(p)
    /\ \A q \in Worker \ {p} : claim' = q => claim = q
    /\ \/ entry' = entry /\ \A q \in Worker \ {p} : stale'[q] = stale[q]
       \/ /\ at[p] = "publish" /\ ~stale[p]
          /\ \A q \in Worker \ {p} : stale'[q] = (at[q] # "idle")
    /\ \A t \in 0 .. granted : t \in working' => t \in working
    /\ disk' = disk \/ claim = p \/ disk \notin working'
    /\ at'[p] = "publish" =>
         stale'[p] = stale[p] /\ (at[p] = "publish" \/ claim \in {p, NoWorker})
    /\ lapsed' = lapsed
    /\ at[p] # "idle" \/ claim = NoWorker

Sound(p) == CommandInv(p) /\ PassInv(p) /\ (~lapsed => LastingInv(p))

LEMMA OthersSound ==
    ASSUME ReauthInv, ReauthTypeOK', NEW p \in Worker, Effect(p), NEW q \in Worker \ {p}
    PROVE  Sound(q)'
<1>1. WorkersTyped /\ q # NoWorker /\ p # NoWorker /\ own[q] \in 0 .. granted
      /\ copy[q].token \in 0 .. granted /\ disk \in 0 .. granted
  <2>1. ReauthTypeOK
    BY DEF ReauthInv
  <2> QED  BY <2>1, ReauthTyped
<1>2. /\ at'[q] = at[q] /\ duty'[q] = duty[q] /\ copy'[q] = copy[q] /\ draft'[q] = draft[q]
      /\ then'[q] = then[q] /\ found'[q] = found[q] /\ own'[q] = own[q]
  BY DEF Effect, Rest
<1>3. CommandInv(q) /\ PassInv(q) /\ PassInv(p) /\ CommandInv(p)
  BY DEF ReauthInv
<1>4. CommandInv(q)'
  BY <1>2, <1>3 DEF CommandInv
<1>5. PassInv(q)'
  <2> SUFFICES ASSUME Covered(q)' PROVE PassInv(q)!2'
    BY DEF PassInv
  <2>1. Covered(q) /\ (at[q] # "publish" => claim = q)
    BY <1>2 DEF Covered, Effect
  <2>2. at[q] \notin {"idle", "reload", "refresh"} => own'[q] = copy'[q].token
    BY <1>2, <1>3, <2>1 DEF PassInv
  <2>3. ASSUME at[q] \notin {"idle", "reload", "refresh"}, ~stale'[q]
        PROVE  copy'[q] = entry'
    BY <1>2, <1>3, <2>1, <2>3 DEF PassInv, Effect
  <2>4. ASSUME at[q] = "refresh"
        PROVE  /\ ~stale'[q] /\ entry' = [copy'[q] EXCEPT !.token = own'[q]]
               /\ \A r \in Worker \ {q} : at'[r] = "publish" => stale'[r]
    <3>1. claim = q /\ ~stale[q] /\ entry = [copy[q] EXCEPT !.token = own[q]]
          /\ \A r \in Worker \ {q} : at[r] = "publish" => stale[r]
      BY <1>3, <2>1, <2>4 DEF PassInv
    <3>2. entry' = entry /\ \A r \in Worker \ {p} : stale'[r] = stale[r]
      BY <3>1 DEF Effect
    <3>3. at'[p] # "publish" \/ (at[p] = "publish" /\ p \in Worker \ {q})
      BY <1>1, <3>1 DEF Effect
    <3>4. at'[p] = "publish" => stale'[p]
      BY <3>1, <3>3 DEF Effect
    <3> QED  BY <1>2, <3>1, <3>2, <3>4 DEF Effect, Rest
  <2>5. ASSUME at[q] \in {"launch", "run", "sync"}
        PROVE  disk' = own'[q] \/ own'[q] \notin working'
    <3>1. claim = q /\ (disk = own[q] \/ own[q] \notin working)
      BY <1>3, <2>1, <2>5 DEF PassInv
    <3>2. own[q] \notin working => own[q] \notin working'
      BY <1>1 DEF Effect
    <3>3. disk' = disk \/ disk \notin working'
      BY <3>1 DEF Effect
    <3> QED  BY <1>2, <3>1, <3>2, <3>3
  <2>6. at[q] = "judge" /\ found[q].left = "empty" => own[q] \notin working'
    BY <1>1, <1>3, <2>1 DEF PassInv, Effect
  <2>7. ASSUME at[q] \in {"assert", "publish"}, draft[q].blocked
        PROVE  draft[q].token = copy[q].token /\ Cause(q)'
    <3>1. draft[q].token = copy[q].token /\ Cause(q)
      BY <1>3, <2>1, <2>7 DEF PassInv
    <3>2. copy[q].token \notin working => copy[q].token \notin working'
      BY <1>1 DEF Effect
    <3> QED  BY <1>2, <3>1, <3>2 DEF Cause
  <2> QED  BY <1>2, <2>2, <2>3, <2>4, <2>5, <2>6, <2>7
<1>6. ~lapsed' => LastingInv(q)'
  <2> SUFFICES ASSUME ~lapsed' PROVE LastingInv(q)'
    OBVIOUS
  <2>1. LastingInv(q) /\ LastingInv(p)
    BY DEF ReauthInv, Effect
  <2>2. at[q] = "idle" /\ duty[q] = "none"
    BY <1>1, <1>3, <2>1 DEF LastingInv, Effect, CommandInv
  <2> QED  BY <1>2, <2>2 DEF LastingInv
<1> QED  BY <1>4, <1>5, <1>6 DEF Sound

LEMMA StepSound ==
    ASSUME ReauthInv, ReauthTypeOK', NEW p \in Worker, Effect(p), Sound(p)'
    PROVE  ReauthInv'
<1>1. \A q \in Worker : Sound(q)'
  BY OthersSound
<1> QED  BY <1>1 DEF ReauthInv, Sound

-----------------------------------------------------------------------------
(* The steps of a worker.                                                   *)

Whole == WorkersTyped /\ entry \in Entries /\ claim \in Worker \cup {NoWorker}

\* What the invariant says of the worker at hand.
LEMMA Here ==
    ASSUME ReauthInv, NEW p \in Worker
    PROVE  /\ ReauthTypeOK /\ Whole /\ CommandInv(p) /\ PassInv(p)
           /\ ~lapsed => LastingInv(p)
           /\ duty[p] = "maintain" /\ claim = p => Covered(p)
BY ReauthTyped DEF ReauthInv, Whole, Covered

\* A worker that does not move tokens keeps to the bounds of what it knows.
LEMMA TypeKept ==
    ASSUME ReauthInv, NEW p \in Worker, WorkersTyped', Rest(p), Leases(p),
           UNCHANGED <<granted, working, lapsed>>,
           entry' \in Entries, entry'.token <= granted,
           disk' \in 0 .. granted, staged' \in 0 .. granted,
           copy'[p].token <= granted, draft'[p].token <= granted, own'[p] <= granted
    PROVE  ReauthTypeOK'
<1>1. ReauthTypeOK
  BY DEF ReauthInv
<1>2. claim' \in Worker \cup {NoWorker} /\ lapsed' \in BOOLEAN
  BY <1>1 DEF ReauthTypeOK, Leases
<1>3. \A q \in Worker :
         copy'[q].token <= granted' /\ draft'[q].token <= granted' /\ own'[q] <= granted'
  BY <1>1 DEF ReauthTypeOK, Rest
<1> QED  BY <1>1, <1>2, <1>3 DEF ReauthTypeOK

\* A step that writes nothing that others read.
LEMMA QuietEffect ==
    ASSUME ReauthInv, NEW p \in Worker, Rest(p), Leases(p),
           at[p] # "idle", UNCHANGED <<entry, working, disk, lapsed>>,
           \A q \in Worker \ {p} : stale'[q] = stale[q],
           at'[p] = "publish" =>
             stale'[p] = stale[p] /\ (at[p] = "publish" \/ claim \in {p, NoWorker})
    PROVE  Effect(p)
<1>1. p # NoWorker /\ \A q \in Worker \ {p} : claim' = q => claim = q
  BY ReauthAssumption DEF Leases
<1> QED  BY <1>1 DEF Effect

\* A command that ends has nothing to be wrong about.
LEMMA EndSound ==
    ASSUME ReauthInv, NEW p \in Worker, Free(p), stale' \in [Worker -> BOOLEAN]
    PROVE  /\ Sound(p)' /\ WorkersTyped' /\ Rest(p) /\ Leases(p)
           /\ at'[p] = "idle" /\ copy'[p].token <= granted /\ draft'[p].token <= granted
           /\ own'[p] <= granted
<1>1. WorkersTyped /\ claim \in Worker \cup {NoWorker} /\ granted \in Nat /\ p # NoWorker
  BY ReauthTyped DEF ReauthInv
<1>2. /\ WorkersTyped' /\ Rest(p) /\ Leases(p)
      /\ at'[p] = "idle" /\ duty'[p] = "none" /\ then'[p] = "free"
      /\ copy'[p] = Blank /\ draft'[p] = Blank /\ own'[p] = 0
  BY <1>1, Freed
<1>3. Blank.token = 0 /\ Blank.blocked = FALSE
  BY BlankTyped
<1>4. CommandInv(p)' /\ PassInv(p)' /\ LastingInv(p)'
  BY <1>2, <1>3 DEF CommandInv, PassInv, LastingInv, Covered
<1> QED  BY <1>1, <1>2, <1>3, <1>4 DEF Sound

LEMMA CommandEnds ==
    ASSUME ReauthInv, NEW p \in Worker, Free(p), at[p] # "idle",
           UNCHANGED <<entry, granted, working, disk, stale, lapsed>>, staged' \in 0 .. granted
    PROVE  ReauthInv'
<1>1. ReauthTypeOK /\ WorkersTyped /\ disk \in 0 .. granted /\ entry \in Entries
      /\ entry.token <= granted
  BY ReauthTyped DEF ReauthInv
<1>2. stale' \in [Worker -> BOOLEAN]
  BY <1>1 DEF WorkersTyped
<1>3. /\ Sound(p)' /\ WorkersTyped' /\ Rest(p) /\ Leases(p) /\ at'[p] = "idle"
      /\ copy'[p].token <= granted /\ draft'[p].token <= granted /\ own'[p] <= granted
  BY <1>2, EndSound
<1>4. ReauthTypeOK'
  BY <1>1, <1>3, TypeKept
<1>5. Effect(p)
  BY <1>3, QuietEffect
<1> QED  BY <1>3, <1>4, <1>5, StepSound

\* A worker goes on to another step.
LEMMA MoveStep ==
    ASSUME ReauthInv, NEW p \in Worker, NEW s \in Stages, Put(p, s), at[p] # "idle",
           UNCHANGED <<entry, granted, working, disk, stale, lapsed>>, staged' \in 0 .. granted,
           UNCHANGED <<duty, copy, draft, then, found, own>>, Leases(p),
           s = "publish" => claim \in {p, NoWorker}, Sound(p)'
    PROVE  ReauthInv'
<1>1. ReauthTypeOK /\ WorkersTyped /\ disk \in 0 .. granted /\ entry \in Entries
      /\ entry.token <= granted /\ copy[p].token <= granted /\ draft[p].token <= granted
      /\ own[p] <= granted
  BY ReauthTyped DEF ReauthInv
<1>2. stale' \in [Worker -> BOOLEAN]
  BY <1>1 DEF WorkersTyped
<1>3. /\ WorkersTyped' /\ Rest(p) /\ at'[p] = s
      /\ copy'[p] = copy[p] /\ draft'[p] = draft[p] /\ own'[p] = own[p]
  BY <1>1, <1>2, Moved
<1>4. ReauthTypeOK'
  BY <1>1, <1>3, TypeKept
<1>5. Effect(p)
  BY <1>3, QuietEffect
<1> QED  BY <1>4, <1>5, StepSound

\* A worker has a record to publish.
LEMMA SubmitStep ==
    ASSUME ReauthInv, NEW p \in Worker, NEW r \in Entries, NEW s \in {"free", "project", "judge"},
           Submit(p, r, s), at[p] # "idle", r.token <= granted,
           UNCHANGED <<entry, granted, working, disk, staged, stale, lapsed>>,
           UNCHANGED <<duty, copy, own>>, Leases(p),
           found' = found \/ (\E l \in {"none", "empty", "candidate", "same", "bad"} :
                                found' = [found EXCEPT ![p].left = l]),
           Sound(p)'
    PROVE  ReauthInv'
<1>1. ReauthTypeOK /\ WorkersTyped /\ disk \in 0 .. granted /\ staged \in 0 .. granted
      /\ entry \in Entries /\ entry.token <= granted /\ copy[p].token <= granted
      /\ own[p] <= granted
  BY ReauthTyped DEF ReauthInv
<1>2. stale' \in [Worker -> BOOLEAN]
  BY <1>1 DEF WorkersTyped
<1>3. /\ WorkersTyped' /\ Rest(p) /\ at'[p] = "assert"
      /\ copy'[p] = copy[p] /\ draft'[p] = r /\ own'[p] = own[p]
  BY <1>1, <1>2, Submitted
<1>4. ReauthTypeOK'
  BY <1>1, <1>3, TypeKept
<1>5. Effect(p)
  BY <1>3, QuietEffect
<1> QED  BY <1>4, <1>5, StepSound

LEMMA TakeStep ==
    ASSUME ReauthInv, NEW p \in Worker, NEW d \in Duties[p], Take(p, d)
    PROVE  ReauthInv'
<1>1. /\ ReauthTypeOK /\ Whole /\ CommandInv(p) /\ p # NoWorker
      /\ copy[p].token <= granted /\ draft[p].token <= granted /\ own[p] <= granted
      /\ disk \in 0 .. granted /\ staged \in 0 .. granted /\ entry.token <= granted
  BY Here, ReauthTyped
<1>2. d \in {"maintain", "login", "capture"}
  BY ReauthAssumption
<1>3. /\ at'[p] = (IF d = "login" THEN "open" ELSE "reload") /\ duty'[p] = d /\ claim' = p
      /\ WorkersTyped' /\ Rest(p)
  BY <1>1, <1>2 DEF Take, Put, Whole, WorkersTyped, Stages, Rest
<1>4. /\ UNCHANGED <<entry, granted, working, disk, staged, copy, stale, draft, then, own, lapsed>>
      /\ at[p] = "idle" /\ claim = NoWorker
  BY DEF Take, provision
<1>5. ReauthTypeOK'
  BY <1>1, <1>3, <1>4, TypeKept DEF Leases, Whole
<1>6. Effect(p)
  BY <1>1, <1>3, <1>4 DEF Effect
<1>7. CommandInv(p)' /\ PassInv(p)' /\ LastingInv(p)'
  BY <1>1, <1>2, <1>3, <1>4 DEF CommandInv, PassInv, LastingInv, Covered
<1> QED  BY <1>5, <1>6, <1>7, StepSound DEF Sound

LEMMA ReloadStep ==
    ASSUME ReauthInv, NEW p \in Worker, Reload(p)
    PROVE  ReauthInv'
<1>1. /\ ReauthTypeOK /\ Whole /\ CommandInv(p) /\ (~lapsed => LastingInv(p))
      /\ draft[p].token <= granted /\ entry.token \in 0 .. MaxLogin
      /\ disk \in 0 .. granted /\ staged \in 0 .. granted /\ entry.token <= granted
  BY Here, ReauthTyped
<1>2. /\ UNCHANGED <<store, granted, working, disk, staged, duty, draft, then, found, lapsed>>
      /\ at[p] = "reload"
  BY DEF Reload, provision
<1>3. /\ at'[p] = "admit" /\ copy'[p] = entry /\ stale'[p] = FALSE /\ own'[p] = entry.token
      /\ WorkersTyped' /\ Rest(p) /\ \A q \in Worker \ {p} : stale'[q] = stale[q]
  BY <1>1 DEF Reload, Put, Whole, WorkersTyped, Stages, Rest
<1>4. ReauthTypeOK'
  BY <1>1, <1>2, <1>3, TypeKept DEF Leases, Whole, store
<1>5. Effect(p)
  BY <1>2, <1>3, QuietEffect DEF Leases, store
<1>6. CommandInv(p)' /\ PassInv(p)' /\ (~lapsed' => LastingInv(p)')
  BY <1>1, <1>2, <1>3 DEF CommandInv, PassInv, LastingInv, Covered, store
<1> QED  BY <1>4, <1>5, <1>6, StepSound DEF Sound

\* What p is about to publish, or to do, is what it knew before.
LEMMA Known ==
    ASSUME ReauthInv, NEW p \in Worker, NEW s \in Stages, Put(p, s),
           UNCHANGED <<duty, copy, draft, then, found, own, stale>>
    PROVE  /\ at'[p] = s /\ duty'[p] = duty[p] /\ copy'[p] = copy[p] /\ draft'[p] = draft[p]
           /\ then'[p] = then[p] /\ found'[p] = found[p] /\ own'[p] = own[p]
           /\ stale'[p] = stale[p]
<1>1. WorkersTyped
  BY ReauthTyped DEF ReauthInv
<1> QED  BY <1>1 DEF WorkersTyped, Put

LEMMA Drafted ==
    ASSUME ReauthInv, NEW p \in Worker, NEW r \in Entries, NEW s \in {"free", "project", "judge"},
           Submit(p, r, s), UNCHANGED <<duty, copy, own, stale>>
    PROVE  /\ at'[p] = "assert" /\ duty'[p] = duty[p] /\ copy'[p] = copy[p] /\ draft'[p] = r
           /\ then'[p] = s /\ own'[p] = own[p] /\ stale'[p] = stale[p]
<1>1. WorkersTyped
  BY ReauthTyped DEF ReauthInv
<1> QED  BY <1>1 DEF WorkersTyped, Submit, Put

LEMMA Marked ==
    ASSUME NEW p \in Worker, copy[p] \in Entries
    PROVE  Mark(p) \in Entries /\ Mark(p).token = copy[p].token
BY DEF Mark, Entries

LEMMA AdmitStep ==
    ASSUME ReauthInv, NEW p \in Worker, Admit(p)
    PROVE  ReauthInv'
<1>1. /\ ReauthTypeOK /\ CommandInv(p) /\ PassInv(p) /\ (~lapsed => LastingInv(p))
      /\ 0 \notin working /\ staged \in 0 .. granted
      /\ copy[p] \in Entries /\ copy[p].token <= granted
  BY Here, ReauthTyped
<1>2. /\ UNCHANGED <<entry, granted, working, disk, staged, stale, lapsed>>
      /\ at[p] = "admit" /\ duty[p] = "maintain"
  BY DEF Admit, provision
<1>3. CASE Free(p)
  BY <1>1, <1>2, <1>3, CommandEnds
<1>4. CASE /\ UnderLease(p) /\ ~copy[p].blocked /\ copy[p].token = 0
           /\ Submit(p, Mark(p), "free") /\ UNCHANGED <<duty, copy, found, own>>
  <2>1. claim = p /\ claim' = p /\ Leases(p) /\ Covered(p)
    BY <1>2, <1>4, Lease DEF Covered
  <2>2. Mark(p) \in Entries /\ Mark(p).token = copy[p].token
    BY <1>1, Marked
  <2>3. /\ at'[p] = "assert" /\ duty'[p] = "maintain" /\ copy'[p] = copy[p] /\ draft'[p] = Mark(p)
        /\ then'[p] = "free" /\ own'[p] = own[p] /\ stale'[p] = stale[p]
    BY <1>2, <1>4, <2>2, Drafted
  <2>4. CommandInv(p)'
    BY <1>4, <2>3 DEF CommandInv
  <2>5. PassInv(p)'
    BY <1>1, <1>2, <1>4, <2>1, <2>2, <2>3 DEF PassInv, Cause
  <2>6. ~lapsed' => LastingInv(p)'
    BY <1>1, <1>2, <2>1, <2>3 DEF LastingInv
  <2> QED  BY <1>1, <1>2, <1>4, <2>1, <2>2, <2>4, <2>5, <2>6, SubmitStep DEF Sound
<1>5. CASE /\ UnderLease(p) /\ ~copy[p].blocked /\ copy[p].token # 0
           /\ Put(p, "preflight") /\ UNCHANGED <<duty, copy, draft, then, found, own>>
  <2>1. claim = p /\ claim' = p /\ Leases(p) /\ Covered(p)
    BY <1>2, <1>5, Lease DEF Covered
  <2>2. /\ at'[p] = "preflight" /\ duty'[p] = "maintain" /\ copy'[p] = copy[p]
        /\ draft'[p] = draft[p] /\ then'[p] = then[p] /\ own'[p] = own[p] /\ stale'[p] = stale[p]
    BY <1>2, <1>5, Known DEF Stages
  <2>3. CommandInv(p)'
    BY <1>1, <1>2, <1>5, <2>1, <2>2 DEF CommandInv, PassInv
  <2>4. PassInv(p)'
    BY <1>1, <1>2, <2>1, <2>2 DEF PassInv
  <2>5. ~lapsed' => LastingInv(p)'
    BY <1>1, <1>2, <2>1, <2>2 DEF LastingInv
  <2> QED  BY <1>1, <1>2, <1>5, <2>1, <2>3, <2>4, <2>5, MoveStep DEF Sound, Stages
<1> QED  BY <1>3, <1>4, <1>5 DEF Admit, Lost

LEMMA PreflightStep ==
    ASSUME ReauthInv, NEW p \in Worker, Preflight(p)
    PROVE  ReauthInv'
<1>1. /\ ReauthTypeOK /\ WorkersTyped /\ CommandInv(p) /\ PassInv(p)
      /\ ~lapsed => LastingInv(p)
      /\ staged \in 0 .. granted /\ disk \in 0 .. MaxLogin /\ disk <= granted
      /\ disk \in Nat /\ own[p] \in Nat /\ p # NoWorker
      /\ copy[p] \in Entries /\ copy[p].token <= granted
  BY Here, ReauthTyped
<1>2. /\ UNCHANGED <<entry, granted, working, disk, staged, stale, lapsed>>
      /\ at[p] = "preflight" /\ duty[p] = "maintain" /\ ~copy[p].blocked
  BY <1>1 DEF Preflight, provision, CommandInv
<1>3. CASE Free(p)
  BY <1>1, <1>2, <1>3, CommandEnds
<1>4. CASE UnsafeStorage(p)
  <2>1. UNCHANGED <<claim, duty, copy, draft, then, own>>
    BY <1>4 DEF UnsafeStorage
  <2>2. /\ found' = [found EXCEPT ![p] = [exit |-> "local", left |-> "bad"]] /\ Put(p, "judge")
    BY <1>4 DEF UnsafeStorage, Judged
  <2>3. WorkersTyped' /\ Rest(p) /\ at'[p] = "judge" /\ found'[p].left = "bad"
    BY <1>1, <1>2, <2>1, <2>2 DEF WorkersTyped, Rest, Put, Stages
  <2>4. ReauthTypeOK'
    BY <1>1, <1>2, <2>1, <2>3, TypeKept, ReauthTyped DEF Leases
  <2>5. Effect(p)
    BY <1>2, <2>1, <2>3, QuietEffect DEF Leases
  <2>6. CommandInv(p)' /\ PassInv(p)' /\ (~lapsed' => LastingInv(p)')
    BY <1>1, <1>2, <2>1, <2>3 DEF CommandInv, PassInv, LastingInv, Covered
  <2> QED  BY <2>4, <2>5, <2>6, StepSound DEF Sound
<1>5. CASE /\ Against(disk, own[p]) = "candidate"
           /\ Submit(p, [copy[p] EXCEPT !.token = disk], "project")
           /\ UNCHANGED <<claim, duty, copy, found, own>>
  <2> DEFINE r == [copy[p] EXCEPT !.token = disk]
  <2>1. r \in Entries /\ r.token = disk /\ r.blocked = copy[p].blocked
    BY <1>1, Retokened
  <2>2. disk # 0
    BY <1>1, <1>5, AgainstFacts
  <2>3. /\ at'[p] = "assert" /\ duty'[p] = duty[p] /\ copy'[p] = copy[p] /\ draft'[p] = r
        /\ then'[p] = "project" /\ own'[p] = own[p] /\ stale'[p] = stale[p]
    BY <1>2, <1>5, <2>1, Drafted
  <2>4. CommandInv(p)'
    BY <1>2, <2>1, <2>2, <2>3 DEF CommandInv
  <2>5. PassInv(p)'
    BY <1>1, <1>2, <1>5, <2>1, <2>3 DEF PassInv, Covered
  <2>6. ~lapsed' => LastingInv(p)'
    BY <1>1, <1>2, <1>5, <2>1, <2>3 DEF LastingInv
  <2> QED  BY <1>1, <1>2, <1>5, <2>1, <2>4, <2>5, <2>6, SubmitStep DEF Sound, Leases
<1>6. CASE /\ Against(disk, own[p]) # "candidate" /\ Put(p, "project")
           /\ UNCHANGED <<claim, duty, copy, draft, then, found, own>>
  <2>1. disk <= own[p]
    BY <1>1, <1>6, AgainstFacts
  <2>2. /\ at'[p] = "project" /\ duty'[p] = duty[p] /\ copy'[p] = copy[p] /\ draft'[p] = draft[p]
        /\ then'[p] = then[p] /\ own'[p] = own[p] /\ stale'[p] = stale[p]
    BY <1>2, <1>6, Known DEF Stages
  <2>3. CommandInv(p)' /\ PassInv(p)' /\ (~lapsed' => LastingInv(p)')
    BY <1>1, <1>2, <1>6, <2>1, <2>2 DEF CommandInv, PassInv, LastingInv, Covered
  <2> QED  BY <1>1, <1>2, <1>6, <2>3, MoveStep DEF Sound, Stages, Leases
<1> QED  BY <1>3, <1>4, <1>5, <1>6 DEF Preflight

LEMMA ProjectStep ==
    ASSUME ReauthInv, NEW p \in Worker, Project(p)
    PROVE  ReauthInv'
<1>1. /\ ReauthTypeOK /\ WorkersTyped /\ CommandInv(p) /\ PassInv(p)
      /\ ~lapsed => LastingInv(p)
      /\ staged \in 0 .. granted /\ own[p] \in Nat /\ own[p] <= granted /\ p # NoWorker
      /\ granted \in Nat
      /\ entry \in Entries /\ entry.token <= granted
      /\ copy[p].token <= granted /\ draft[p].token <= granted
  BY Here, ReauthTyped
<1>2. /\ UNCHANGED <<entry, granted, working, staged, stale, lapsed>>
      /\ at[p] = "project" /\ duty[p] = "maintain" /\ own[p] # 0
  BY <1>1 DEF Project, provision, CommandInv
<1>3. CASE Free(p) /\ UNCHANGED disk
  BY <1>1, <1>2, <1>3, CommandEnds
<1>4. CASE /\ UnderLease(p) /\ disk' = own[p] /\ Put(p, "launch")
           /\ UNCHANGED <<duty, copy, draft, then, found, own>>
  <2>1. claim = p /\ claim' = p /\ Leases(p)
    BY <1>2, <1>4, Lease
  <2>2. /\ at'[p] = "launch" /\ duty'[p] = duty[p] /\ copy'[p] = copy[p] /\ draft'[p] = draft[p]
        /\ then'[p] = then[p] /\ own'[p] = own[p] /\ stale'[p] = stale[p]
    BY <1>2, <1>4, Known DEF Stages
  <2>3. WorkersTyped' /\ Rest(p)
    BY <1>1, <1>2, <1>4, Moved DEF WorkersTyped, Stages
  <2>4. ReauthTypeOK'
    BY <1>1, <1>2, <1>4, <2>1, <2>2, <2>3, TypeKept
  <2>5. Effect(p)
    BY <1>1, <1>2, <2>1, <2>2, <2>3 DEF Effect
  <2>6. CommandInv(p)' /\ PassInv(p)' /\ (~lapsed' => LastingInv(p)')
    BY <1>1, <1>2, <1>4, <2>1, <2>2 DEF CommandInv, PassInv, LastingInv, Covered
  <2> QED  BY <2>4, <2>5, <2>6, StepSound DEF Sound
<1> QED  BY <1>3, <1>4 DEF Project, Lost

LEMMA LaunchStep ==
    ASSUME ReauthInv, NEW p \in Worker, Launch(p)
    PROVE  ReauthInv'
<1>1. /\ ReauthTypeOK /\ CommandInv(p) /\ PassInv(p) /\ (~lapsed => LastingInv(p))
      /\ staged \in 0 .. granted
  BY Here, ReauthTyped
<1>2. /\ UNCHANGED <<entry, granted, working, disk, staged, stale, lapsed>>
      /\ at[p] = "launch" /\ duty[p] = "maintain" /\ own[p] # 0
  BY <1>1 DEF Launch, provision, CommandInv
<1>3. CASE Free(p)
  BY <1>1, <1>2, <1>3, CommandEnds
<1>4. CASE UnderLease(p) /\ Put(p, "run") /\ UNCHANGED <<duty, copy, draft, then, found, own>>
  <2>1. claim = p /\ claim' = p /\ Leases(p)
    BY <1>2, <1>4, Lease
  <2>2. /\ at'[p] = "run" /\ duty'[p] = duty[p] /\ copy'[p] = copy[p] /\ draft'[p] = draft[p]
        /\ then'[p] = then[p] /\ own'[p] = own[p] /\ stale'[p] = stale[p]
    BY <1>2, <1>4, Known DEF Stages
  <2>3. CommandInv(p)' /\ PassInv(p)' /\ (~lapsed' => LastingInv(p)')
    BY <1>1, <1>2, <2>1, <2>2 DEF CommandInv, PassInv, LastingInv, Covered
  <2> QED  BY <1>1, <1>2, <1>4, <2>1, <2>3, MoveStep DEF Sound, Stages
<1> QED  BY <1>3, <1>4 DEF Launch, Lost

LEMMA RunStep ==
    ASSUME ReauthInv, NEW p \in Worker, Run(p)
    PROVE  ReauthInv'
<1>1. /\ ReauthTypeOK /\ WorkersTyped /\ CommandInv(p) /\ PassInv(p)
      /\ ~lapsed => LastingInv(p)
      /\ staged \in 0 .. granted /\ disk \in 0 .. granted /\ granted \in Nat /\ MaxLogin \in Nat
      /\ working \subseteq 1 .. granted /\ own[p] \in Nat /\ own[p] <= granted
  BY Here, ReauthTyped
<1>2. /\ UNCHANGED <<entry, claim, staged, duty, copy, draft, then, own, stale, lapsed>>
      /\ at[p] = "run" /\ duty[p] = "maintain" /\ own[p] # 0
  BY <1>1 DEF Run, store, CommandInv
<1>3. \/ granted < MaxLogin /\ granted' = granted + 1
         /\ working' = (working \ {disk}) \cup {granted + 1} /\ disk' = granted + 1
      \/ working' = working \ {disk} /\ disk' = 0 /\ granted' = granted
      \/ UNCHANGED <<disk, granted, working>>
  BY DEF Run
<1>4. /\ granted' \in 1 .. MaxLogin /\ granted <= granted' /\ working' \subseteq 1 .. granted'
      /\ disk' \in 0 .. granted' /\ staged \in 0 .. granted'
      /\ \A t \in 0 .. granted : t \in working' => t \in working
      /\ disk' = disk \/ disk \notin working'
  <2>1. granted \in 1 .. MaxLogin
    BY <1>1 DEF ReauthTypeOK
  <2>2. CASE granted < MaxLogin /\ granted' = granted + 1
             /\ working' = (working \ {disk}) \cup {granted + 1} /\ disk' = granted + 1
    <3>1. granted' \in 1 .. MaxLogin /\ granted <= granted' /\ disk' \in 0 .. granted'
          /\ staged \in 0 .. granted' /\ disk # granted + 1
      BY <1>1, <2>1, <2>2
    <3>2. working' \subseteq 1 .. granted'
      BY <1>1, <2>1, <2>2
    <3>3. (\A t \in 0 .. granted : t \in working' => t \in working) /\ disk \notin working'
      BY <1>1, <2>2, <3>1
    <3> QED  BY <3>1, <3>2, <3>3
  <2>3. CASE working' = working \ {disk} /\ disk' = 0 /\ granted' = granted
    BY <1>1, <2>1, <2>3
  <2>4. CASE UNCHANGED <<disk, granted, working>>
    BY <1>1, <2>1, <2>4
  <2> QED  BY <1>3, <2>2, <2>3, <2>4
<1>5. PICK e \in {"ok", "client", "infrastructure"} :
         found' = [found EXCEPT ![p] = [exit |-> e, left |-> "none"]]
  BY DEF Run
<1>6. WorkersTyped' /\ Rest(p) /\ at'[p] = "sync"
  BY <1>1, <1>2, <1>5 DEF Run, WorkersTyped, Rest, Put, Stages
<1>7. ReauthTypeOK'
  <2>1. \A q \in Worker : copy[q].token <= granted' /\ draft[q].token <= granted' /\ own[q] <= granted'
    BY <1>1, <1>4, ReauthTyped
  <2>2. entry.token <= granted'
    BY <1>1, <1>4, ReauthTyped
  <2> QED  BY <1>1, <1>2, <1>4, <1>6, <2>1, <2>2 DEF ReauthTypeOK
<1>8. Effect(p)
  BY <1>2, <1>4, <1>6 DEF Effect
<1>9. CommandInv(p)' /\ PassInv(p)' /\ (~lapsed' => LastingInv(p)')
  <2>1. Covered(p)' => disk = own[p] \/ own[p] \notin working
    BY <1>1, <1>2, <1>6 DEF PassInv, Covered
  <2>2. Covered(p)' => disk' = own[p] \/ own[p] \notin working'
    BY <1>1, <1>4, <2>1
  <2>3. PassInv(p)'
    BY <1>1, <1>2, <1>6, <2>2 DEF PassInv, Covered
  <2>4. CommandInv(p)' /\ (~lapsed' => LastingInv(p)')
    BY <1>1, <1>2, <1>6 DEF CommandInv, LastingInv
  <2> QED  BY <2>3, <2>4
<1> QED  BY <1>7, <1>8, <1>9, StepSound DEF Sound

LEMMA SyncStep ==
    ASSUME ReauthInv, NEW p \in Worker, Sync(p)
    PROVE  ReauthInv'
<1> DEFINE left == Against(disk, own[p])
<1>1. /\ ReauthTypeOK /\ WorkersTyped /\ CommandInv(p) /\ PassInv(p)
      /\ ~lapsed => LastingInv(p)
      /\ staged \in 0 .. granted /\ disk \in 0 .. MaxLogin /\ disk \in Nat /\ disk <= granted
      /\ own[p] \in Nat /\ entry \in Entries /\ entry.token <= granted
      /\ copy[p] \in Entries /\ copy[p].token <= granted /\ draft[p].token <= granted
      /\ own[p] <= granted /\ disk \in 0 .. granted
  BY Here, ReauthTyped
<1>2. /\ UNCHANGED <<entry, claim, granted, working, disk, staged, duty, copy, own, stale, lapsed>>
      /\ at[p] = "sync" /\ duty[p] = "maintain" /\ own[p] # 0 /\ ~copy[p].blocked
  BY <1>1 DEF Sync, store, provision, CommandInv
<1>3. /\ left \in {"empty", "candidate", "same", "bad"}
      /\ left = "candidate" => disk # 0
      /\ left = "empty" => disk = 0
  BY <1>1, AgainstFacts
<1>4. found' = [found EXCEPT ![p].left = left] /\ found'[p].left = left
  BY <1>1 DEF Sync, WorkersTyped
<1>5. CASE left = "candidate"
  <2> DEFINE r == [copy[p] EXCEPT !.token = disk]
  <2>1. r \in Entries /\ r.token = disk /\ r.blocked = copy[p].blocked
    BY <1>1, Retokened
  <2>2. Submit(p, r, "judge")
    BY <1>5 DEF Sync
  <2>3. /\ at'[p] = "assert" /\ duty'[p] = duty[p] /\ copy'[p] = copy[p] /\ draft'[p] = r
        /\ then'[p] = "judge" /\ own'[p] = own[p] /\ stale'[p] = stale[p]
    BY <1>2, <2>1, <2>2, Drafted
  <2>4. CommandInv(p)'
    BY <1>2, <1>3, <1>4, <1>5, <2>1, <2>3 DEF CommandInv
  <2>5. PassInv(p)' /\ (~lapsed' => LastingInv(p)')
    BY <1>1, <1>2, <2>1, <2>3 DEF PassInv, Covered, LastingInv
  <2> QED  BY <1>1, <1>2, <1>3, <1>4, <2>1, <2>2, <2>4, <2>5, SubmitStep DEF Sound, Leases
<1>6. CASE left # "candidate"
  <2>1. Put(p, "judge") /\ UNCHANGED <<draft, then>>
    BY <1>6 DEF Sync
  <2>2. WorkersTyped' /\ Rest(p) /\ at'[p] = "judge"
    BY <1>1, <1>2, <1>3, <1>4, <2>1 DEF WorkersTyped, Rest, Put, Stages
  <2>3. ReauthTypeOK'
    BY <1>1, <1>2, <2>1, <2>2, TypeKept DEF Leases
  <2>4. Effect(p)
    BY <1>2, <2>2, QuietEffect DEF Leases
  <2>5. left = "empty" /\ Covered(p)' => own[p] \notin working
    BY <1>1, <1>2, <1>3, <2>2 DEF PassInv, Covered
  <2>6. CommandInv(p)' /\ PassInv(p)' /\ (~lapsed' => LastingInv(p)')
    BY <1>1, <1>2, <1>4, <2>1, <2>2, <2>5 DEF CommandInv, PassInv, LastingInv, Covered
  <2> QED  BY <2>3, <2>4, <2>6, StepSound DEF Sound
<1> QED  BY <1>5, <1>6

LEMMA EscalatedParts ==
    ASSUME NEW p \in Worker, copy[p] \in Entries, NEW k \in Kind
    PROVE  /\ Escalated(p, k) \in Entries /\ Escalated(p, k).token = copy[p].token
           /\ Escalated(p, k).blocked =>
                /\ copy[p].streak # NoStreak /\ copy[p].streak.age >= Window
                /\ Escalated(p, k).streak = copy[p].streak
<1>1. /\ copy[p].streak.age \in 0 .. Window /\ Window \in Nat \ {0}
      /\ copy[p].streak = [kind |-> copy[p].streak.kind, age |-> copy[p].streak.age]
      /\ copy[p].blocked \in BOOLEAN /\ copy[p].token \in 0 .. MaxLogin
  BY ReauthAssumption DEF Entries
<1>2. Streak(p, k) \in [kind : Kind \cup {"none"}, age : 0 .. Window]
  BY <1>1 DEF Streak
<1>3. Escalated(p, k) = [copy[p] EXCEPT !.streak = Streak(p, k),
                                        !.blocked = Streak(p, k).age >= Window]
  BY DEF Escalated
<1>4. /\ Escalated(p, k) \in Entries /\ Escalated(p, k).token = copy[p].token
      /\ Escalated(p, k).streak = Streak(p, k)
      /\ Escalated(p, k).blocked = (Streak(p, k).age >= Window)
  <2> DEFINE s == Streak(p, k)
             b == Streak(p, k).age >= Window
             f == Escalated(p, k)
  <2>1. /\ copy[p] \in Entries /\ s \in [kind : Kind \cup {"none"}, age : 0 .. Window]
        /\ b \in BOOLEAN
    BY <1>2
  <2>2. f = [copy[p] EXCEPT !.streak = s, !.blocked = b]
    BY <1>3
  <2> HIDE DEF s, b, f
  <2>3. f \in Entries /\ f.token = copy[p].token /\ f.streak = s /\ f.blocked = b
    <3> DEFINE c == copy[p]
    <3>1. c \in Entries /\ f = [c EXCEPT !.streak = s, !.blocked = b]
      BY <2>1, <2>2
    <3> HIDE DEF c
    <3>2. f \in Entries /\ f.token = c.token /\ f.streak = s /\ f.blocked = b
      BY <2>1, <3>1 DEF Entries
    <3> QED  BY <3>2 DEF c
  <2> QED  BY <2>3, Zenon DEF s, b, f
<1>5. Streak(p, k).age >= Window => SameReason(p, k) /\ Streak(p, k) = copy[p].streak
  BY <1>1 DEF Streak, SameReason
<1>6. SameReason(p, k) => copy[p].streak # NoStreak
  BY DEF SameReason, NoStreak, Kind
<1> QED  BY <1>1, <1>4, <1>5, <1>6

LEMMA JudgeStep ==
    ASSUME ReauthInv, NEW p \in Worker, Judge(p)
    PROVE  ReauthInv'
<1>1. /\ ReauthTypeOK /\ CommandInv(p) /\ PassInv(p) /\ (~lapsed => LastingInv(p))
      /\ staged \in 0 .. granted /\ copy[p] \in Entries /\ copy[p].token <= granted
      /\ p # NoWorker
  BY Here, ReauthTyped
<1>2. /\ UNCHANGED <<entry, granted, working, disk, staged, stale, lapsed>>
      /\ at[p] = "judge" /\ duty[p] = "maintain" /\ ~copy[p].blocked
  BY <1>1 DEF Judge, provision, CommandInv
<1>3. CASE Free(p)
  BY <1>1, <1>2, <1>3, CommandEnds
\* It has a record to publish, which it marks for a cause only.
<1>4. ASSUME NEW r \in Entries, Submit(p, r, "free"), UNCHANGED <<claim, duty, copy, found, own>>,
             r.token = copy[p].token,
             claim = p /\ r.blocked =>
                \/ copy[p].token \notin working
                \/ /\ copy[p].streak # NoStreak /\ copy[p].streak.age >= Window
                   /\ r.streak = copy[p].streak
      PROVE  ReauthInv'
  <2>1. /\ at'[p] = "assert" /\ duty'[p] = duty[p] /\ copy'[p] = copy[p] /\ draft'[p] = r
        /\ then'[p] = "free" /\ own'[p] = own[p] /\ stale'[p] = stale[p]
    BY <1>2, <1>4, Drafted
  <2>2. CommandInv(p)' /\ (~lapsed' => LastingInv(p)')
    BY <1>1, <1>2, <1>4, <2>1 DEF CommandInv, LastingInv
  <2>3. PassInv(p)'
    BY <1>1, <1>2, <1>4, <2>1 DEF PassInv, Covered, Cause
  <2> QED  BY <1>1, <1>2, <1>4, <2>2, <2>3, SubmitStep DEF Sound, Leases
<1>5. ASSUME NEW k \in Kind, Escalate(p, k)
      PROVE  ReauthInv'
  BY <1>1, <1>4, <1>5, EscalatedParts DEF Escalate
<1>6. CASE /\ found[p].left = "empty" /\ Submit(p, Mark(p), "free")
           /\ UNCHANGED <<claim, duty, copy, found, own>>
  <2>1. Mark(p) \in Entries /\ Mark(p).token = copy[p].token
    BY <1>1, Marked
  <2>2. claim = p => copy[p].token \notin working
    BY <1>1, <1>2, <1>6 DEF PassInv, Covered
  <2> QED  BY <1>4, <1>6, <2>1, <2>2
<1>7. CASE /\ Submit(p, [copy[p] EXCEPT !.streak = NoStreak], "free")
           /\ UNCHANGED <<claim, duty, copy, found, own>>
  <2> DEFINE r == [copy[p] EXCEPT !.streak = NoStreak]
  <2>1. NoStreak \in [kind : Kind \cup {"none"}, age : 0 .. Window]
    BY ReauthAssumption DEF NoStreak
  <2>2. r \in Entries /\ r.token = copy[p].token /\ ~r.blocked
    BY <1>1, <1>2, <2>1 DEF Entries
  <2> QED  BY <1>4, <1>7, <2>2
<1>8. "client" \in Kind /\ "local" \in Kind
  BY DEF Kind
<1> QED  BY <1>3, <1>5, <1>6, <1>7, <1>8 DEF Judge

LEMMA AssertStep ==
    ASSUME ReauthInv, NEW p \in Worker, AssertLogin(p)
    PROVE  ReauthInv'
<1>1. /\ ReauthTypeOK /\ CommandInv(p) /\ PassInv(p) /\ (~lapsed => LastingInv(p))
      /\ staged \in 0 .. granted
  BY Here, ReauthTyped
<1>2. /\ UNCHANGED <<entry, granted, working, disk, staged, stale, lapsed>>
      /\ at[p] = "assert"
  BY DEF AssertLogin, provision
<1>3. CASE Free(p)
  BY <1>1, <1>2, <1>3, CommandEnds
<1>4. CASE UnderLease(p) /\ Put(p, "publish") /\ UNCHANGED <<duty, copy, draft, then, found, own>>
  <2>1. /\ claim' = p /\ Leases(p) /\ claim \in {p, NoWorker}
        /\ duty[p] = "maintain" => claim = p
    BY <1>4, Lease
  <2>2. /\ at'[p] = "publish" /\ duty'[p] = duty[p] /\ copy'[p] = copy[p] /\ draft'[p] = draft[p]
        /\ then'[p] = then[p] /\ found'[p] = found[p] /\ own'[p] = own[p] /\ stale'[p] = stale[p]
    BY <1>2, <1>4, Known DEF Stages
  <2>3. CommandInv(p)'
    BY <1>1, <1>2, <2>2 DEF CommandInv
  <2>4. PassInv(p)'
    <3>1. Covered(p)' => Covered(p)
      BY <2>1, <2>2 DEF Covered
    <3>2. Cause(p) => Cause(p)'
      BY <1>2, <2>2 DEF Cause
    <3> QED  BY <1>1, <1>2, <2>2, <3>1, <3>2 DEF PassInv
  <2>5. ~lapsed' => LastingInv(p)'
    BY <1>1, <1>2, <2>1, <2>2 DEF LastingInv
  <2> QED  BY <1>1, <1>2, <1>4, <2>1, <2>3, <2>4, <2>5, MoveStep DEF Sound, Stages
<1> QED  BY <1>3, <1>4 DEF AssertLogin, Lost

LEMMA PublishStep ==
    ASSUME ReauthInv, NEW p \in Worker, Publish(p)
    PROVE  ReauthInv'
<1>1. /\ ReauthTypeOK /\ WorkersTyped /\ CommandInv(p) /\ PassInv(p)
      /\ ~lapsed => LastingInv(p)
      /\ staged \in 0 .. granted /\ granted \in Nat /\ disk \in 0 .. granted /\ p # NoWorker
      /\ draft[p] \in Entries /\ draft[p].token <= granted /\ copy[p].token <= granted
  BY Here, ReauthTyped
<1>2. /\ UNCHANGED <<granted, working, disk, lapsed>> /\ at[p] = "publish"
      /\ staged' \in 0 .. granted
  BY <1>1 DEF Publish, provision
<1>3. CASE Free(p) /\ UNCHANGED <<entry, stale>>
  BY <1>1, <1>2, <1>3, CommandEnds
<1>4. ASSUME ~stale[p], entry' = draft[p], stale' = [q \in Worker |-> q # p /\ at[q] # "idle"]
      PROVE  /\ stale' \in [Worker -> BOOLEAN] /\ ~stale'[p]
             /\ \A q \in Worker \ {p} : stale'[q] = (at[q] # "idle")
  BY <1>4
<1>5. CASE ~stale[p] /\ entry' = draft[p] /\ stale' = [q \in Worker |-> q # p /\ at[q] # "idle"]
           /\ Free(p)
  <2>1. /\ Sound(p)' /\ WorkersTyped' /\ Rest(p) /\ Leases(p) /\ at'[p] = "idle"
        /\ copy'[p].token <= granted /\ draft'[p].token <= granted /\ own'[p] <= granted
    BY <1>4, <1>5, EndSound
  <2>2. ReauthTypeOK'
    BY <1>1, <1>2, <1>5, <2>1, TypeKept
  <2>3. \A q \in Worker \ {p} : claim' = q => claim = q
    BY <2>1, ReauthAssumption DEF Leases
  <2>4. Effect(p)
    BY <1>1, <1>2, <1>4, <1>5, <2>1, <2>3 DEF Effect
  <2> QED  BY <2>1, <2>2, <2>4, StepSound
<1>6. CASE /\ ~stale[p] /\ entry' = draft[p] /\ stale' = [q \in Worker |-> q # p /\ at[q] # "idle"]
           /\ then[p] # "free" /\ Put(p, "refresh")
           /\ own' = [own EXCEPT ![p] = draft[p].token]
           /\ UNCHANGED <<claim, duty, copy, draft, then, found>>
  <2>1. draft[p].token \in 0 .. MaxLogin
    BY <1>1, EntryParts
  <2>2. WorkersTyped' /\ Rest(p) /\ at'[p] = "refresh" /\ own'[p] = draft[p].token
    BY <1>1, <1>4, <1>6, <2>1 DEF WorkersTyped, Rest, Put, Stages
  <2>3. ReauthTypeOK'
    BY <1>1, <1>2, <1>6, <2>2, TypeKept DEF Leases
  <2>4. Effect(p)
    BY <1>1, <1>2, <1>4, <1>6, <2>2 DEF Effect
  <2>5. /\ duty[p] = "maintain" /\ draft[p].token # 0 /\ ~copy[p].blocked
        /\ draft[p] = [copy[p] EXCEPT !.token = draft[p].token]
    BY <1>1, <1>2, <1>6 DEF CommandInv
  <2>6. CommandInv(p)'
    BY <1>1, <1>2, <1>6, <2>2, <2>5 DEF CommandInv
  <2>7. PassInv(p)'
    BY <1>2, <1>4, <1>6, <2>2, <2>4, <2>5 DEF PassInv, Effect, Rest
  <2>8. ~lapsed' => LastingInv(p)'
    BY <1>1, <1>2, <1>4, <1>6, <2>2, <2>5 DEF LastingInv
  <2> QED  BY <2>3, <2>4, <2>6, <2>7, <2>8, StepSound DEF Sound
<1> QED  BY <1>3, <1>5, <1>6 DEF Publish

LEMMA RefreshStep ==
    ASSUME ReauthInv, NEW p \in Worker, Refresh(p)
    PROVE  ReauthInv'
<1>1. /\ ReauthTypeOK /\ WorkersTyped /\ CommandInv(p) /\ PassInv(p)
      /\ ~lapsed => LastingInv(p)
      /\ staged \in 0 .. granted /\ granted \in Nat /\ disk \in 0 .. granted
      /\ copy[p] \in Entries /\ entry.token \in 0 .. MaxLogin /\ entry \in Entries
      /\ own[p] <= granted /\ entry.token <= granted
  BY Here, ReauthTyped
<1>2. /\ UNCHANGED <<store, granted, working, disk, staged, duty, found, own, lapsed>>
      /\ at[p] = "refresh" /\ duty[p] = "maintain" /\ own[p] # 0
      /\ then[p] \in {"project", "judge"} /\ ~copy[p].blocked
  BY <1>1 DEF Refresh, provision, CommandInv, WorkersTyped
<1>3. /\ [copy[p] EXCEPT !.token = entry.token] \in Entries
      /\ [copy[p] EXCEPT !.token = entry.token].token = entry.token
      /\ [copy[p] EXCEPT !.token = entry.token].blocked = copy[p].blocked
      /\ Blank \in Entries /\ Blank.token = 0 /\ ~Blank.blocked
  BY <1>1, Retokened, BlankTyped
<1>4. /\ copy' = [copy EXCEPT ![p] = [copy[p] EXCEPT !.token = entry.token]]
      /\ stale' = [stale EXCEPT ![p] = FALSE] /\ draft' = [draft EXCEPT ![p] = Blank]
      /\ then' = [then EXCEPT ![p] = "free"] /\ Put(p, then[p])
  BY DEF Refresh
<1>5. /\ WorkersTyped' /\ Rest(p)
      /\ \A q \in Worker \ {p} : stale'[q] = stale[q]
  BY <1>1, <1>2, <1>3, <1>4 DEF WorkersTyped, Rest, Put, Stages
<1>6. /\ at'[p] = then[p] /\ copy'[p] = [copy[p] EXCEPT !.token = entry.token]
      /\ draft'[p] = Blank /\ then'[p] = "free" /\ ~stale'[p]
      /\ duty'[p] = duty[p] /\ found'[p] = found[p] /\ own'[p] = own[p]
  BY <1>1, <1>2, <1>4 DEF WorkersTyped, Put
<1>7. ReauthTypeOK'
  <2>1. copy'[p].token <= granted /\ draft'[p].token <= granted /\ own'[p] <= granted
    BY <1>1, <1>3, <1>6
  <2> QED  BY <1>1, <1>2, <1>5, <2>1, TypeKept DEF Leases, store
<1>8. Effect(p)
  BY <1>2, <1>5, <1>6, QuietEffect DEF Leases, store
<1>9. CommandInv(p)'
  BY <1>2, <1>3, <1>6 DEF CommandInv
<1>10. PassInv(p)'
  <2> SUFFICES ASSUME claim = p PROVE PassInv(p)'
    BY <1>2, <1>6 DEF PassInv, Covered, store
  <2>1. entry = [copy[p] EXCEPT !.token = own[p]]
    BY <1>1, <1>2 DEF PassInv, Covered
  <2>2. own[p] \in 0 .. MaxLogin
    BY <1>1 DEF WorkersTyped
  <2>3. entry.token = own[p] /\ copy'[p] = entry /\ copy'[p].token = own[p]
    BY <1>1, <1>6, <2>1, <2>2, Retokened
  <2>4. then[p] = "judge" => found[p].left # "empty"
    BY <1>1, <1>2 DEF CommandInv
  <2> QED  BY <1>2, <1>6, <2>3, <2>4 DEF PassInv, store
<1>11. ~lapsed' => LastingInv(p)'
  BY <1>1, <1>2, <1>6 DEF LastingInv, store
<1> QED  BY <1>7, <1>8, <1>9, <1>10, <1>11, StepSound DEF Sound

LEMMA OpenStep ==
    ASSUME ReauthInv, NEW p \in Worker, Open(p)
    PROVE  ReauthInv'
<1>1. /\ ReauthTypeOK /\ CommandInv(p) /\ (~lapsed => LastingInv(p))
      /\ staged \in 0 .. granted /\ granted \in Nat
  BY Here, ReauthTyped
<1>2. /\ UNCHANGED <<entry, granted, working, disk, stale, lapsed>>
      /\ at[p] = "open" /\ duty[p] = "login"
  BY <1>1 DEF Open, provision, CommandInv
<1>3. CASE Free(p) /\ UNCHANGED staged
  BY <1>1, <1>2, <1>3, CommandEnds
<1>4. CASE /\ UnderLease(p) /\ staged' = 0 /\ Put(p, "browser")
           /\ UNCHANGED <<duty, copy, draft, then, found, own>>
  <2>1. claim' = p /\ Leases(p)
    BY <1>4, Lease
  <2>2. /\ at'[p] = "browser" /\ duty'[p] = duty[p] /\ draft'[p] = draft[p]
        /\ then'[p] = then[p] /\ stale'[p] = stale[p]
    BY <1>2, <1>4, Known DEF Stages
  <2>3. CommandInv(p)' /\ PassInv(p)' /\ (~lapsed' => LastingInv(p)')
    BY <1>1, <1>2, <2>1, <2>2 DEF CommandInv, PassInv, LastingInv, Covered
  <2> QED  BY <1>1, <1>2, <1>4, <2>1, <2>3, MoveStep DEF Sound, Stages
<1> QED  BY <1>3, <1>4 DEF Open, Lost

LEMMA BrowserStep ==
    ASSUME ReauthInv, NEW p \in Worker, Browser(p)
    PROVE  ReauthInv'
<1>1. /\ ReauthTypeOK /\ WorkersTyped /\ CommandInv(p) /\ (~lapsed => LastingInv(p))
      /\ staged \in 0 .. granted /\ disk \in 0 .. granted /\ granted \in Nat
      /\ working \subseteq 1 .. granted
  BY Here, ReauthTyped
<1>2. /\ UNCHANGED <<store, disk, duty, copy, stale, draft, then, found, own, lapsed>>
      /\ at[p] = "browser" /\ duty[p] = "login" /\ Put(p, "collect")
  BY <1>1 DEF Browser, CommandInv
<1>3. /\ granted' \in 1 .. MaxLogin /\ granted <= granted' /\ working' \subseteq 1 .. granted'
      /\ disk' \in 0 .. granted' /\ staged' \in 0 .. granted'
      /\ \A t \in 0 .. granted : t \in working' => t \in working
  <2>1. granted \in 1 .. MaxLogin /\ MaxLogin \in Nat
    BY <1>1, ReauthAssumption DEF ReauthTypeOK
  <2>2. CASE /\ granted < MaxLogin /\ granted' = granted + 1
             /\ working' = working \cup {granted + 1} /\ staged' = granted + 1
    BY <1>1, <1>2, <2>1, <2>2
  <2>3. CASE UNCHANGED <<granted, working, staged>>
    BY <1>1, <1>2, <2>1, <2>3
  <2> QED  BY <2>2, <2>3 DEF Browser
<1>4. /\ at'[p] = "collect" /\ duty'[p] = duty[p] /\ draft'[p] = draft[p]
      /\ then'[p] = then[p] /\ stale'[p] = stale[p] /\ WorkersTyped' /\ Rest(p)
  BY <1>1, <1>2, Known, Moved DEF Stages, WorkersTyped
<1>5. ReauthTypeOK'
  <2>1. \A q \in Worker : copy[q].token <= granted' /\ draft[q].token <= granted' /\ own[q] <= granted'
    BY <1>1, <1>3, ReauthTyped
  <2>2. entry.token <= granted'
    BY <1>1, <1>3, ReauthTyped
  <2> QED  BY <1>1, <1>2, <1>3, <1>4, <2>1, <2>2 DEF ReauthTypeOK, store
<1>6. Effect(p)
  BY <1>2, <1>3, <1>4 DEF Effect, store
<1>7. CommandInv(p)' /\ PassInv(p)' /\ (~lapsed' => LastingInv(p)')
  BY <1>1, <1>2, <1>4 DEF CommandInv, PassInv, LastingInv, Covered, store
<1> QED  BY <1>5, <1>6, <1>7, StepSound DEF Sound

LEMMA CollectStep ==
    ASSUME ReauthInv, NEW p \in Worker, Collect(p)
    PROVE  ReauthInv'
<1>1. /\ ReauthTypeOK /\ WorkersTyped /\ CommandInv(p) /\ (~lapsed => LastingInv(p))
      /\ staged \in 0 .. granted /\ staged \in 0 .. MaxLogin /\ disk \in 0 .. granted
      /\ granted \in Nat /\ entry \in Entries /\ entry.token <= granted
      /\ copy[p].token <= granted /\ own[p] <= granted
  BY Here, ReauthTyped
<1>2. /\ UNCHANGED <<entry, granted, working, disk, staged, stale, lapsed>>
      /\ at[p] = "collect" /\ duty[p] = "login"
  BY <1>1 DEF Collect, provision, CommandInv
<1>3. CASE Free(p)
  BY <1>1, <1>2, <1>3, CommandEnds
<1>4. CASE /\ Put(p, "reread") /\ draft' = [draft EXCEPT ![p] = Enrolled(staged)]
           /\ UNCHANGED <<claim, duty, copy, then, found, own>>
  <2>1. Enrolled(staged) \in Entries /\ Enrolled(staged).token = staged /\ ~Enrolled(staged).blocked
    BY <1>1, EnrolledParts
  <2>2. /\ WorkersTyped' /\ Rest(p) /\ at'[p] = "reread" /\ draft'[p] = Enrolled(staged)
    BY <1>1, <1>2, <1>4, <2>1 DEF WorkersTyped, Rest, Put, Stages
  <2>3. draft'[p].token <= granted
    BY <1>1, <2>1, <2>2
  <2>4. ReauthTypeOK'
    BY <1>1, <1>2, <1>4, <2>2, <2>3, TypeKept DEF Leases
  <2>5. Effect(p)
    BY <1>2, <1>4, <2>2, QuietEffect DEF Leases
  <2>6. CommandInv(p)' /\ PassInv(p)' /\ (~lapsed' => LastingInv(p)')
    BY <1>1, <1>2, <1>4, <2>1, <2>2 DEF CommandInv, PassInv, LastingInv, Covered
  <2> QED  BY <2>4, <2>5, <2>6, StepSound DEF Sound
<1> QED  BY <1>3, <1>4 DEF Collect

LEMMA RereadStep ==
    ASSUME ReauthInv, NEW p \in Worker, Reread(p)
    PROVE  ReauthInv'
<1>1. /\ ReauthTypeOK /\ WorkersTyped /\ CommandInv(p) /\ (~lapsed => LastingInv(p))
      /\ staged \in 0 .. granted /\ disk \in 0 .. granted
      /\ entry \in Entries /\ entry.token <= granted
      /\ draft[p].token <= granted /\ own[p] <= granted
  BY Here, ReauthTyped
<1>2. /\ UNCHANGED <<entry, granted, working, disk, staged, lapsed>>
      /\ at[p] = "reread" /\ duty[p] = "login"
  BY <1>1 DEF Reread, provision, CommandInv
<1>3. CASE Free(p) /\ UNCHANGED stale
  BY <1>1, <1>2, <1>3, CommandEnds
<1>4. CASE /\ UnderLease(p) /\ Put(p, "assert")
           /\ copy' = [copy EXCEPT ![p] = entry] /\ stale' = [stale EXCEPT ![p] = FALSE]
           /\ UNCHANGED <<duty, draft, then, found, own>>
  <2>1. claim' = p /\ Leases(p)
    BY <1>4, Lease
  <2>2. /\ WorkersTyped' /\ Rest(p) /\ at'[p] = "assert" /\ copy'[p] = entry
        /\ \A q \in Worker \ {p} : stale'[q] = stale[q]
    BY <1>1, <1>2, <1>4 DEF WorkersTyped, Rest, Put, Stages
  <2>3. ReauthTypeOK'
    BY <1>1, <1>2, <1>4, <2>1, <2>2, TypeKept
  <2>4. Effect(p)
    BY <1>2, <2>1, <2>2, QuietEffect
  <2>5. CommandInv(p)' /\ PassInv(p)' /\ (~lapsed' => LastingInv(p)')
    BY <1>1, <1>2, <1>4, <2>1, <2>2 DEF CommandInv, PassInv, LastingInv, Covered
  <2> QED  BY <2>3, <2>4, <2>5, StepSound DEF Sound
<1> QED  BY <1>3, <1>4 DEF Reread, Lost

LEMMA CaptureStep ==
    ASSUME ReauthInv, NEW p \in Worker, Capture(p)
    PROVE  ReauthInv'
<1>1. /\ ReauthTypeOK /\ CommandInv(p) /\ (~lapsed => LastingInv(p))
      /\ staged \in 0 .. granted /\ granted \in 1 .. MaxLogin /\ MaxLogin \in Nat
  BY Here, ReauthTyped
<1>2. /\ UNCHANGED <<entry, granted, working, disk, staged, stale, lapsed>>
      /\ at[p] = "admit" /\ duty[p] = "capture"
  BY DEF Capture, provision
<1>3. CASE Free(p)
  BY <1>1, <1>2, <1>3, CommandEnds
<1>4. ASSUME NEW t \in Elsewhere, UnderLease(p), Submit(p, Enrolled(t), "free"),
             UNCHANGED <<duty, copy, found, own>>
      PROVE  ReauthInv'
  <2>1. claim' = p /\ Leases(p)
    BY <1>4, Lease
  <2>2. t \in 0 .. MaxLogin /\ t <= granted
    BY <1>1 DEF Elsewhere
  <2>3. Enrolled(t) \in Entries /\ Enrolled(t).token = t /\ ~Enrolled(t).blocked
    BY <2>2, EnrolledParts
  <2>4. /\ at'[p] = "assert" /\ duty'[p] = duty[p] /\ draft'[p] = Enrolled(t)
        /\ then'[p] = "free" /\ stale'[p] = stale[p]
    BY <1>2, <1>4, <2>3, Drafted
  <2>5. CommandInv(p)' /\ PassInv(p)' /\ (~lapsed' => LastingInv(p)')
    BY <1>1, <1>2, <2>1, <2>3, <2>4 DEF CommandInv, PassInv, LastingInv, Covered
  <2> QED  BY <1>1, <1>2, <1>4, <2>1, <2>2, <2>3, <2>5, SubmitStep DEF Sound
<1> QED  BY <1>3, <1>4 DEF Capture, Lost

LEMMA RetakeStep ==
    ASSUME ReauthInv, NEW p \in Worker, Retake(p)
    PROVE  ReauthInv'
<1>1. /\ ReauthTypeOK /\ WorkersTyped /\ CommandInv(p) /\ (~lapsed => LastingInv(p))
      /\ staged \in 0 .. granted /\ disk \in 0 .. granted
      /\ entry \in Entries /\ entry.token <= granted
      /\ copy[p].token <= granted /\ draft[p].token <= granted /\ own[p] <= granted
  BY Here, ReauthTyped
<1>2. /\ UNCHANGED <<entry, granted, working, disk, staged, worker, stale, lapsed>>
      /\ duty[p] = "login" /\ claim = NoWorker /\ claim' = p /\ at[p] # "idle"
  BY <1>1 DEF Retake, provision, CommandInv
<1>3. WorkersTyped' /\ Rest(p) /\ Leases(p)
  BY <1>1, <1>2 DEF WorkersTyped, Rest, Leases, worker
<1>4. ReauthTypeOK'
  BY <1>1, <1>2, <1>3, TypeKept DEF worker
<1>5. Effect(p)
  BY <1>2, <1>3, QuietEffect DEF worker
<1>6. CommandInv(p)' /\ PassInv(p)' /\ (~lapsed' => LastingInv(p)')
  BY <1>1, <1>2 DEF CommandInv, PassInv, LastingInv, Covered, worker
<1> QED  BY <1>4, <1>5, <1>6, StepSound DEF Sound

LEMMA DieStep ==
    ASSUME ReauthInv, NEW p \in Worker, Die(p)
    PROVE  ReauthInv'
<1>1. /\ ReauthTypeOK /\ WorkersTyped /\ granted \in Nat
      /\ staged \in 0 .. granted /\ disk \in 0 .. granted
      /\ entry \in Entries /\ entry.token <= granted
  BY Here, ReauthTyped
<1>2. /\ UNCHANGED <<entry, claim, granted, working, disk, staged, stale, lapsed>>
      /\ at[p] # "idle"
  BY DEF Die, provision, store
<1>3. Blank \in Entries /\ Blank.token = 0 /\ ~Blank.blocked /\ 0 \in 0 .. MaxLogin
  BY BlankTyped, ReauthAssumption
<1>4. /\ Rest(p) /\ at'[p] = "idle" /\ duty'[p] = "none" /\ then'[p] = "free"
      /\ copy'[p] = Blank /\ draft'[p] = Blank /\ own'[p] = 0
  BY <1>1 DEF Die, Put, Rest, WorkersTyped
<1>5. WorkersTyped'
  BY <1>1, <1>2, <1>3, BlankTyped DEF Die, Put, WorkersTyped, Stages
<1>6. ReauthTypeOK'
  BY <1>1, <1>2, <1>3, <1>4, <1>5, TypeKept DEF Leases
<1>7. Effect(p)
  BY <1>2, <1>4, QuietEffect DEF Leases
<1>8. CommandInv(p)' /\ PassInv(p)' /\ (~lapsed' => LastingInv(p)')
  BY <1>3, <1>4 DEF CommandInv, PassInv, LastingInv, Covered
<1> QED  BY <1>6, <1>7, <1>8, StepSound DEF Sound

-----------------------------------------------------------------------------
(* What happens around the workers, and the invariant.                      *)

\* The record and the tokens move, the workers do not.
LEMMA WorldTyped ==
    ASSUME ReauthInv, UNCHANGED worker, stale' \in [Worker -> BOOLEAN], lapsed' \in BOOLEAN,
           entry' \in Entries, claim' \in Worker \cup {NoWorker},
           granted' \in 1 .. MaxLogin, granted <= granted', working' \subseteq 1 .. granted',
           disk' \in 0 .. granted', staged' \in 0 .. granted', entry'.token <= granted'
    PROVE  ReauthTypeOK' /\ \A p \in Worker : CommandInv(p)'
<1>1. /\ ReauthTypeOK /\ WorkersTyped /\ granted \in Nat
      /\ \A p \in Worker :
           /\ copy[p].token \in Nat /\ draft[p].token \in Nat /\ own[p] \in Nat
           /\ copy[p].token <= granted /\ draft[p].token <= granted /\ own[p] <= granted
  BY ReauthTyped DEF ReauthInv
<1>2. WorkersTyped'
  BY <1>1 DEF WorkersTyped, worker
<1>3. \A p \in Worker :
         copy'[p].token <= granted' /\ draft'[p].token <= granted' /\ own'[p] <= granted'
  <2>1. granted' \in Nat
    BY ReauthAssumption
  <2> QED  BY <1>1, <2>1 DEF worker
<1>4. ASSUME NEW p \in Worker PROVE CommandInv(p)'
  <2>1. CommandInv(p)
    BY DEF ReauthInv
  <2> QED  BY <2>1 DEF CommandInv, worker
<1> QED  BY <1>2, <1>3, <1>4 DEF ReauthTypeOK

LEMMA SessionStep ==
    ASSUME ReauthInv, SessionRotates
    PROVE  ReauthInv'
<1>1. /\ ReauthTypeOK /\ WorkersTyped /\ granted \in 1 .. MaxLogin /\ MaxLogin \in Nat
      /\ working \subseteq 1 .. granted /\ staged \in 0 .. granted
      /\ entry \in Entries /\ entry.token <= granted /\ entry.token \in Nat
      /\ \A p \in Worker : p # NoWorker
  BY ReauthTyped DEF ReauthInv
<1>2. /\ UNCHANGED <<claim, staged, worker, lapsed>> /\ claim = NoWorker
      /\ granted < MaxLogin /\ granted' = granted + 1 /\ disk' = granted + 1
      /\ working' = (working \ {entry.token}) \cup {granted + 1}
  BY DEF SessionRotates
<1>3. /\ granted' \in 1 .. MaxLogin /\ granted <= granted' /\ granted + 1 \in 0 .. MaxLogin
      /\ working' \subseteq 1 .. granted' /\ disk' \in 0 .. granted' /\ staged' \in 0 .. granted'
  <2>1. /\ granted' \in 1 .. MaxLogin /\ granted <= granted' /\ granted + 1 \in 0 .. MaxLogin
        /\ granted + 1 \in 1 .. granted' /\ 1 .. granted \subseteq 1 .. granted'
        /\ granted + 1 \in 0 .. granted' /\ 0 .. granted \subseteq 0 .. granted'
    BY <1>1, <1>2
  <2>2. working' \subseteq 1 .. granted'
    BY <1>1, <1>2, <2>1
  <2>3. disk' \in 0 .. granted' /\ staged' \in 0 .. granted'
    BY <1>1, <1>2, <2>1
  <2> QED  BY <2>1, <2>2, <2>3
<1>4. \A t \in 0 .. granted : t \in working' => t \in working
  BY <1>1, <1>2
<1>5. \/ /\ entry' = [entry EXCEPT !.token = granted + 1]
         /\ stale' = [q \in Worker |-> at[q] # "idle"]
      \/ UNCHANGED <<entry, stale>>
  BY DEF SessionRotates
<1>6. entry' \in Entries /\ entry'.token <= granted' /\ stale' \in [Worker -> BOOLEAN]
  <2>1. CASE UNCHANGED <<entry, stale>>
    BY <1>1, <1>2, <2>1 DEF WorkersTyped
  <2>2. CASE /\ entry' = [entry EXCEPT !.token = granted + 1]
             /\ stale' = [q \in Worker |-> at[q] # "idle"]
    BY <1>1, <1>2, <1>3, <2>2, Retokened
  <2> QED  BY <1>5, <2>1, <2>2
<1>7. ReauthTypeOK' /\ \A p \in Worker : CommandInv(p)'
  BY <1>1, <1>2, <1>3, <1>6, WorldTyped DEF ReauthTypeOK
<1>8. ASSUME NEW p \in Worker PROVE PassInv(p)'
  <2>1. PassInv(p) /\ copy[p].token \in 0 .. granted
    BY ReauthTyped DEF ReauthInv
  <2> SUFFICES ASSUME Covered(p)' PROVE PassInv(p)'
    BY DEF PassInv
  <2>2. at[p] = "publish" /\ Covered(p)
    BY <1>1, <1>2 DEF Covered, worker
  <2>3. stale'[p] \/ (entry' = entry /\ stale'[p] = stale[p])
    BY <1>5, <2>2
  <2>4. Cause(p) => Cause(p)'
    BY <1>2, <1>4, <2>1 DEF Cause, worker
  <2> QED  BY <1>2, <2>1, <2>2, <2>3, <2>4 DEF PassInv, worker
<1>9. ASSUME ~lapsed', NEW p \in Worker PROVE LastingInv(p)'
  <2>1. LastingInv(p) /\ CommandInv(p)
    BY <1>2, <1>9 DEF ReauthInv
  <2>2. at[p] = "idle" /\ duty[p] = "none"
    BY <1>1, <1>2, <2>1 DEF LastingInv, CommandInv
  <2> QED  BY <1>2, <2>2 DEF LastingInv, worker
<1> QED  BY <1>7, <1>8, <1>9 DEF ReauthInv

LEMMA TickStep ==
    ASSUME ReauthInv, Tick
    PROVE  ReauthInv'
<1>1. /\ ReauthTypeOK /\ WorkersTyped /\ entry \in Entries /\ granted \in 1 .. MaxLogin
      /\ disk \in 0 .. granted /\ staged \in 0 .. granted /\ working \subseteq 1 .. granted
      /\ entry.token <= granted
  BY ReauthTyped DEF ReauthInv
<1>2. /\ UNCHANGED <<claim, provision, disk, staged, worker, stale, lapsed>>
      /\ \A p \in Worker : duty[p] # "maintain"
      /\ entry' = [entry EXCEPT !.streak.age = @ + 1] /\ entry.streak.age < Window
  BY DEF Tick
<1>3. entry' \in Entries /\ entry'.token = entry.token
  BY <1>1, <1>2, ReauthAssumption DEF Entries
<1>4. ReauthTypeOK' /\ \A p \in Worker : CommandInv(p)'
  BY <1>1, <1>2, <1>3, WorldTyped DEF ReauthTypeOK, provision, WorkersTyped
<1>5. \A p \in Worker : PassInv(p)'
  BY <1>2 DEF PassInv, Covered, worker
<1>6. ASSUME ~lapsed', NEW p \in Worker PROVE LastingInv(p)'
  <2>1. LastingInv(p) /\ CommandInv(p)
    BY <1>2, <1>6 DEF ReauthInv
  <2> QED  BY <1>2, <2>1 DEF LastingInv, CommandInv, worker, provision
<1> QED  BY <1>4, <1>5, <1>6 DEF ReauthInv

LEMMA ExpireStep ==
    ASSUME ReauthInv, Expire
    PROVE  ReauthInv'
<1>1. /\ ReauthTypeOK /\ WorkersTyped /\ entry \in Entries /\ granted \in 1 .. MaxLogin
      /\ disk \in 0 .. granted /\ staged \in 0 .. granted /\ working \subseteq 1 .. granted
      /\ entry.token <= granted /\ claim \in Worker \cup {NoWorker}
      /\ \A p \in Worker : p # NoWorker
  BY ReauthTyped DEF ReauthInv
<1>2. /\ UNCHANGED <<entry, provision, disk, staged, worker, stale>>
      /\ claim \in Worker /\ claim' = NoWorker
      /\ IF at[claim] = "idle" THEN UNCHANGED <<lapsed, faults>> ELSE lapsed' = TRUE
  BY <1>1 DEF Expire
<1>3. lapsed' \in BOOLEAN
  BY <1>1, <1>2 DEF ReauthTypeOK
<1>4. ReauthTypeOK' /\ \A p \in Worker : CommandInv(p)'
  BY <1>1, <1>2, <1>3, WorldTyped DEF ReauthTypeOK, provision, WorkersTyped
<1>5. ASSUME NEW p \in Worker PROVE PassInv(p)'
  <2>1. PassInv(p)
    BY DEF ReauthInv
  <2>2. Covered(p)' => Covered(p) /\ at[p] = "publish"
    BY <1>1, <1>2 DEF Covered, worker
  <2> QED  BY <1>2, <2>1, <2>2 DEF PassInv, Cause, worker, provision
<1>6. ASSUME ~lapsed', NEW p \in Worker PROVE LastingInv(p)'
  <2>1. ~lapsed /\ at[claim] = "idle"
    BY <1>2, <1>6
  <2>2. LastingInv(p) /\ CommandInv(p)
    BY <2>1 DEF ReauthInv
  <2>3. at[p] = "idle" /\ duty[p] = "none"
    BY <2>1, <2>2 DEF LastingInv, CommandInv
  <2> QED  BY <1>2, <2>3 DEF LastingInv, worker
<1> QED  BY <1>4, <1>5, <1>6 DEF ReauthInv

LEMMA ElsewhereStep ==
    ASSUME ReauthInv,
           UNCHANGED <<store, granted, working, disk, staged, worker, stale, lapsed>>
    PROVE  ReauthInv'
<1>1. ReauthTypeOK'
  BY DEF ReauthInv, ReauthTypeOK, WorkersTyped, store, worker
<1>2. \A p \in Worker : CommandInv(p)' /\ PassInv(p)'
  BY DEF ReauthInv, CommandInv, PassInv, Covered, Cause, store, worker
<1>3. ~lapsed' => \A p \in Worker : LastingInv(p)'
  BY DEF ReauthInv, LastingInv, store, worker
<1> QED  BY <1>1, <1>2, <1>3 DEF ReauthInv

LEMMA ReauthInitInv == ReauthInit => ReauthInv
<1> SUFFICES ASSUME ReauthInit PROVE ReauthInv
  OBVIOUS
<1>1. /\ Blank \in Entries /\ Blank.token = 0 /\ ~Blank.blocked
      /\ Nothing \in [exit : {"none", "ok", "client", "local", "infrastructure"},
                       left : {"none", "empty", "candidate", "same", "bad"}]
  BY BlankTyped
<1>2. MaxLogin \in Nat \ {0} /\ 0 \in 0 .. MaxLogin /\ 1 \in 0 .. MaxLogin /\ 1 \in 1 .. MaxLogin
  BY ReauthAssumption
<1>3. entry \in Entries /\ entry.token \in {0, 1}
  <2>1. PICK t \in {0, 1} : entry = [Blank EXCEPT !.token = t]
    BY DEF ReauthInit
  <2>2. t \in 0 .. MaxLogin
    BY <1>2
  <2> QED  BY <1>1, <2>1, <2>2, Retokened
<1>4. WorkersTyped
  BY <1>1, <1>2 DEF ReauthInit, WorkersTyped, Stages
<1>5. ReauthTypeOK
  <2>1. /\ claim \in Worker \cup {NoWorker} /\ lapsed \in BOOLEAN
        /\ granted = 1 /\ working = {1} /\ disk = 0 /\ staged = 0
    BY DEF ReauthInit
  <2>2. /\ granted \in 1 .. MaxLogin /\ working \subseteq 1 .. granted
        /\ disk \in 0 .. granted /\ staged \in 0 .. granted /\ entry.token <= granted
    BY <1>2, <1>3, <2>1
  <2>3. ASSUME NEW p \in Worker
        PROVE  copy[p].token = 0 /\ draft[p].token = 0 /\ own[p] = 0
    BY <1>1 DEF ReauthInit
  <2> QED  BY <1>3, <1>4, <2>1, <2>2, <2>3 DEF ReauthTypeOK
<1>6. ASSUME NEW p \in Worker PROVE CommandInv(p) /\ PassInv(p) /\ LastingInv(p)
  <2>1. /\ at[p] = "idle" /\ duty[p] = "none" /\ then[p] = "free" /\ draft[p] = Blank
    BY DEF ReauthInit
  <2> QED  BY <1>1, <2>1 DEF CommandInv, PassInv, LastingInv, Covered
<1> QED  BY <1>5, <1>6 DEF ReauthInv

LEMMA ReauthStep == ReauthInv /\ [ReauthNext]_reauthVars => ReauthInv'
<1> SUFFICES ASSUME ReauthInv, [ReauthNext]_reauthVars PROVE ReauthInv'
  OBVIOUS
<1>1. ASSUME NEW p \in Worker, NEW d \in Duties[p], Take(p, d) PROVE ReauthInv'
  BY <1>1, TakeStep
<1>2. ASSUME NEW p \in Worker, Pass(p) PROVE ReauthInv'
  BY <1>2, ReloadStep, AdmitStep, PreflightStep, ProjectStep, LaunchStep, RunStep, SyncStep,
     JudgeStep, AssertStep, PublishStep, RefreshStep, OpenStep, BrowserStep, CollectStep,
     RereadStep, CaptureStep DEF Pass
<1>3. ASSUME NEW p \in Worker, Retake(p) \/ Die(p) PROVE ReauthInv'
  BY <1>3, RetakeStep, DieStep
<1>4. CASE SessionRotates
  BY <1>4, SessionStep
<1>5. CASE Tick
  BY <1>5, TickStep
<1>6. CASE Expire
  BY <1>6, ExpireStep
<1>7. CASE BecomeDue \/ Settle \/ UNCHANGED reauthVars
  BY <1>7, ElsewhereStep DEF BecomeDue, Settle, reauthVars, provision
<1> QED  BY <1>1, <1>2, <1>3, <1>4, <1>5, <1>6, <1>7 DEF ReauthNext

LEMMA ReauthAlways == ReauthSpec => []ReauthInv
<1>1. ReauthInv /\ [ReauthNext]_reauthVars => ReauthInv'
  BY ReauthStep
<1>2. ReauthInit => ReauthInv
  BY ReauthInitInv
<1> QED  BY <1>1, <1>2, PTL DEF ReauthSpec

\* A command writes the record when it publishes, the managed storage when it
\* projects its token and runs Claude on it; so do a session and, the record, time.
LEMMA CommandWrites ==
    ASSUME NEW p \in Worker, Pass(p)
    PROVE  (entry' = entry \/ Publish(p)) /\ (disk' = disk \/ Project(p) \/ Run(p))
<1>1. CASE Reload(p) \/ Admit(p) \/ Preflight(p) \/ Launch(p) \/ Capture(p)
  BY <1>1 DEF Reload, Admit, Preflight, Launch, Capture, store
<1>2. CASE Project(p) \/ Run(p)
  BY <1>2 DEF Project, Run, store
<1>3. CASE Sync(p) \/ Judge(p) \/ AssertLogin(p) \/ Publish(p) \/ Refresh(p)
  BY <1>3 DEF Sync, Judge, AssertLogin, Publish, Refresh, store
<1>4. CASE Open(p) \/ Browser(p) \/ Collect(p) \/ Reread(p)
  BY <1>4 DEF Open, Browser, Collect, Reread, store
<1> QED  BY <1>1, <1>2, <1>3, <1>4 DEF Pass

LEMMA Writers ==
    ASSUME [ReauthNext]_reauthVars
    PROVE  /\ entry' = entry \/ SessionRotates \/ Tick \/ \E p \in Worker : Publish(p)
           /\ disk' = disk \/ SessionRotates \/ \E p \in Worker : Project(p) \/ Run(p)
<1>1. ASSUME NEW p \in Worker, NEW d, Take(p, d) PROVE UNCHANGED <<entry, disk>>
  BY <1>1 DEF Take
<1>2. ASSUME NEW p \in Worker, Retake(p) \/ Die(p) PROVE UNCHANGED <<entry, disk>>
  BY <1>2 DEF Retake, Die, store
<1>3. CASE BecomeDue \/ Tick \/ Expire \/ Settle \/ UNCHANGED reauthVars
  BY <1>3 DEF BecomeDue, Tick, Expire, Settle, reauthVars, store
<1> QED  BY <1>1, <1>2, <1>3, CommandWrites DEF ReauthNext

\* Only a pass marks the record, with the record it has read and a cause for it.
LEMMA MarkingStep ==
    ASSUME ReauthInv, [ReauthNext]_reauthVars, entry'.blocked, ~entry.blocked
    PROVE  \E p \in Worker :
             /\ at[p] = "publish" /\ copy[p] = entry /\ own[p] = entry.token
             /\ entry' = draft[p] /\ draft[p].token = entry.token /\ Cause(p)
<1>1. entry \in Entries
  BY ReauthTyped DEF ReauthInv
<1>2. ASSUME NEW p \in Worker, Publish(p), entry' # entry
      PROVE  /\ at[p] = "publish" /\ copy[p] = entry /\ own[p] = entry.token
             /\ entry' = draft[p] /\ draft[p].token = entry.token /\ Cause(p)
  <2>1. at[p] = "publish" /\ ~stale[p] /\ entry' = draft[p] /\ draft[p].blocked
    BY <1>2 DEF Publish
  <2>2. Covered(p) /\ PassInv(p)
    <3>1. CommandInv(p) /\ PassInv(p)
      BY DEF ReauthInv
    <3> QED  BY <2>1, <3>1 DEF CommandInv, Covered
  <2>3. own[p] = copy[p].token /\ copy[p] = entry
    BY <2>1, <2>2 DEF PassInv
  <2>4. draft[p].token = copy[p].token /\ Cause(p)
    BY <2>1, <2>2 DEF PassInv
  <2> QED  BY <2>1, <2>3, <2>4
\* A session and the clock leave the mark as it is.
<1>3. CASE SessionRotates \/ Tick
  <2>1. entry'.blocked = entry.blocked
    BY <1>1, <1>3 DEF SessionRotates, Tick, Entries
  <2> QED  BY <2>1
<1> QED  BY <1>2, <1>3, Writers

\* The types, with no token newer than the last one granted.
THEOREM ReauthTypeCorrect == ReauthSpec => []ReauthTypeOK
<1>1. ReauthInv => ReauthTypeOK
  BY DEF ReauthInv
<1> QED  BY <1>1, ReauthAlways, PTL

\* `aim auth maintain` says that an account needs a person for a cause only, and
\* says it of the login it has tried: a login made, or a rotation published, since
\* it read the record is never marked, whatever leases lapse and whoever dies.
THEOREM MarkedForCause == ReauthSpec => MarkedRightly
<1>1. ASSUME ReauthInv, [ReauthNext]_reauthVars
      PROVE  /\ [entry'.blocked /\ ~entry.blocked =>
                   \/ entry.token \notin working
                   \/ /\ entry.streak # NoStreak /\ entry.streak.age >= Window
                      /\ entry'.streak = entry.streak]_reauthVars
             /\ [entry'.blocked /\ ~entry.blocked =>
                   /\ entry'.token = entry.token
                   /\ \E p \in Worker : at[p] = "publish" /\ own[p] = entry.token]_reauthVars
  <2> SUFFICES ASSUME entry'.blocked, ~entry.blocked
               PROVE  /\ \/ entry.token \notin working
                         \/ /\ entry.streak # NoStreak /\ entry.streak.age >= Window
                            /\ entry'.streak = entry.streak
                      /\ entry'.token = entry.token
                      /\ \E p \in Worker : at[p] = "publish" /\ own[p] = entry.token
    OBVIOUS
  <2>1. PICK p \in Worker :
          /\ at[p] = "publish" /\ copy[p] = entry /\ own[p] = entry.token
          /\ entry' = draft[p] /\ draft[p].token = entry.token /\ Cause(p)
    BY <1>1, MarkingStep
  <2> QED  BY <2>1 DEF Cause
<1> QED  BY <1>1, ReauthAlways, PTL DEF ReauthSpec, MarkedRightly, BlockedForCause, LoginStands

\* As long as leases last, the token that Claude has been given in exchange for
\* the published one, which no longer works, is not written over before it is
\* published, whichever command or session runs next and wherever one has died.
THEOREM RotationKept == ReauthSpec => RotationSurvives
<1>1. ASSUME ReauthInv, [ReauthNext]_reauthVars
      PROVE  [(disk \in working /\ disk > entry.token /\ ~lapsed) => disk' >= disk]_reauthVars
  <2> SUFFICES ASSUME disk > entry.token, ~lapsed PROVE disk' >= disk
    OBVIOUS
  <2>1. /\ granted \in Nat /\ disk \in Nat /\ disk <= granted /\ entry.token \in Nat
        /\ \A p \in Worker : own[p] \in Nat
    BY <1>1, ReauthTyped DEF ReauthInv
  <2>2. \A p \in Worker : CommandInv(p) /\ PassInv(p) /\ LastingInv(p)
    BY <1>1 DEF ReauthInv
  <2>3. CASE disk' = disk
    BY <2>1, <2>3
  <2>4. CASE SessionRotates
    BY <2>1, <2>4 DEF SessionRotates
  <2>5. ASSUME NEW p \in Worker, Project(p)
        PROVE  disk' >= disk
    <3>1. disk' \in {disk, own[p]} /\ disk <= own[p]
      BY <2>2, <2>5 DEF Project, LastingInv
    <3> QED  BY <2>1, <3>1
  \* Claude runs on the published token, so that there is none to lose.
  <2>6. ASSUME NEW p \in Worker, Run(p)
        PROVE  FALSE
    <3>1. at[p] = "run" /\ duty[p] = "maintain" /\ claim = p /\ disk = own[p] /\ ~stale[p]
      BY <2>2, <2>6 DEF Run, LastingInv, CommandInv
    <3>2. own[p] = copy[p].token /\ copy[p] = entry
      BY <2>2, <3>1 DEF PassInv, Covered
    <3> QED  BY <2>1, <3>1, <3>2
  <2> QED  BY <1>1, <2>3, <2>4, <2>5, <2>6, Writers
<1> QED  BY <1>1, ReauthAlways, PTL DEF ReauthSpec, RotationSurvives
==============================================================================
